---- MODULE Spec2Model ----
(***************************************************************************)
(* ISKOnnect backend: the points/badges engine and the account flows,      *)
(* modelled statement by statement against the relational store.           *)
(*                                                                         *)
(* The repository holds two revisions of the same packages.  `rev` says    *)
(* which one is running; it is fixed for a whole behaviour.                *)
(*   "v2"  integer-keyed schema, models take part in transactions          *)
(*         (unnamed/part_001, unnamed/part_004, schema lines 1-91)         *)
(*   "v1"  student-number-keyed schema, every statement autocommits        *)
(*         (handlers/auth.go, unnamed/part_005, schema lines 93-203)       *)
(*                                                                         *)
(* Store semantics are PostgreSQL's defaults: READ COMMITTED, an UPDATE    *)
(* locks its row until the transaction ends, a statement outside a         *)
(* transaction commits on its own.  Every statement may also fail          *)
(* (connection loss, timeout); the failure is an input of the step.        *)
(***************************************************************************)
EXTENDS Integers, Sequences, FiniteSets, Bags, TLC

VARIABLES
    rev,          \* which revision of the code is running
    users,        \* table users: id -> row
    userBadges,   \* table user_badges: bag of <<user_id, badge_id>> rows
    call,         \* per worker: the IncrementPointsAndCheckBadges call in progress
    nCalls,       \* calls started so far
    hist,         \* per user: what the finished and running calls did (history)
    credentials,  \* table user_credentials: id -> row
    emailVerifications,  \* table email_verifications: set of rows
    req,          \* per worker: the auth request being handled
    nReqs,        \* auth requests started so far
    now,          \* the store's clock, in minutes
    nTicks,       \* clock advances so far
    seqs,         \* sequences: user_credentials.id, reset_tokens.id, tokens drawn so far,
                  \* materials.id
    alog,         \* what Register, VerifyEmail and Login answered so far (history)
    resetTokens,  \* table reset_tokens: set of rows
    rlog,         \* what VerifyOTP and ResetPassword answered so far (history)
    clock,        \* wall clock of the token flows, in ticks (fractions of a second)
    nClock,       \* clock advances of the token flows so far
    issued,       \* the JWTs handed out so far, each with when and why (history)
    nSess,        \* token requests served so far
    slog,         \* what ValidateJWT and the middleware decided so far (history)
    votes,        \* table votes: set of rows
    bookmarks,    \* table bookmarks: set of rows
    materials,    \* table materials: the ids of its rows
    uploaderOf,   \* table materials: id -> uploader_id
    reports,      \* table reports: set of rows
    mreq,         \* per worker: the material whose vote answer is pending, or 0
    ureq,         \* per worker: the PUT /users/me being handled
    nMat,         \* vote, bookmark and delete requests served so far
    mlog          \* what Vote and Bookmark did so far (history)

pointsOnly == <<userBadges, call, nCalls, hist>>

authOnly == <<credentials, emailVerifications, req, nReqs, now, nTicks, seqs, alog>>

resetOnly == <<resetTokens, rlog>>

sessionOnly == <<clock, nClock, issued, nSess, slog>>

materialOnly == <<votes, bookmarks, materials, uploaderOf, reports, mreq, ureq, nMat, mlog>>

vars == <<rev, users, pointsOnly, authOnly, resetOnly, sessionOnly, materialOnly>>

-----------------------------------------------------------------------------
(* Bounds *)

MaxCalls == 3

MaxReqs == 3

MaxResetReqs == 4

MaxTicks == 1

MaxClockSteps == 4

MaxSessOps == 3

MaxLogins == 1

MaxMatOps == 3

\* clock ticks in one second
TicksPerSecond == 2

-----------------------------------------------------------------------------
(* Program constants *)

UploadPoints == 5

Revs == {"v1", "v2"}

Workers == {"w1", "w2"}

Badges == {1, 2, 3}

\* badges seeded by the migration: Freshie 0, Scholar/Dean's Defender 50,
\* Elite/Supreme ISKOlar 100
PointsRequired(b) == CASE b = 1 -> 0 [] b = 2 -> 50 [] b = 3 -> 100

\* id of the account present when the calls start (SERIAL id in v2, the
\* student number in v1)
IdsOf(r) == IF r = "v2" THEN {1} ELSE {"sn1"}

\* an id no row has
MissingId(r) == IF r = "v2" THEN 9 ELSE "sn9"

Deltas == {UploadPoints, 50}

-----------------------------------------------------------------------------
(* Store helpers *)

HasUser(u) == u \in DOMAIN users

\* rows of user_badges for (u, b)
BadgeRows(u, b) == CopiesIn(<<u, b>>, userBadges)

HeldBadges(u) == {b \in Badges : BadgeRows(u, b) > 0}

\* SELECT id FROM badges WHERE points_required <= $1
\*   AND id NOT IN (SELECT badge_id FROM user_badges WHERE user_id = $2)
QualifyingBadgesStrict(pts, held) ==
    {b \in Badges : PointsRequired(b) < pts /\ b \notin held}

QualifyingBadges(pts, held) ==
    {b \in Badges : PointsRequired(b) <= pts /\ b \notin held}

\* UPDATE users SET points = points + $1: the new value is computed from the
\* row as it is when the statement runs
PointsAfterStaleUpdate(p, u, d) == call[p].pre + d

PointsAfterUpdate(p, u, d) == users[u].points + d

Idle == [pc |-> "idle", user |-> 0, delta |-> 0, newPoints |-> 0,
         rows |-> {}, pend |-> {}, pre |-> 0, attempted |-> {}]

\* v2: the row lock taken by UPDATE is held until commit or rollback
HoldsRowLock(p, u) ==
    /\ call[p].pc \in {"updated", "loop"}
    /\ call[p].user = u

RowLockedByOther(p, u) == \E q \in Workers \ {p} : HoldsRowLock(q, u)

InFlight(u) == {p \in Workers : call[p].pc # "idle" /\ call[p].user = u}

NoHist == [basePoints |-> 0, baseBadges |-> {}, okSum |-> 0, okCount |-> 0, okBadges |-> {}, failed |-> FALSE,
           raced |-> FALSE, dup |-> FALSE, conflictErr |-> FALSE,
           lastRead |-> -1]

\* the call of worker p returns: nil when ok, an error otherwise
Finish(p, ok, conflict) ==
    LET u == call[p].user
        h == hist[u]
    IN  /\ call' = [call EXCEPT ![p] = Idle]
        /\ hist' = [hist EXCEPT ![u] =
                [h EXCEPT !.okSum = IF ok THEN @ + call[p].delta ELSE @,
                          !.okCount = IF ok THEN @ + 1 ELSE @,
                          !.okBadges = IF ok THEN @ \cup call[p].pend ELSE @,
                          !.failed = @ \/ ~ok,
                          !.conflictErr = @ \/ conflict]]

-----------------------------------------------------------------------------
(* IncrementPointsAndCheckBadges is entered.  v2 opens a transaction first  *)
(* (db.Begin, which may fail); v1 has nothing to open.                      *)

Start(p, u, d) ==
    /\ call[p].pc = "idle"
    /\ nCalls < MaxCalls
    /\ nCalls' = nCalls + 1
    /\ UNCHANGED <<authOnly, resetOnly, sessionOnly, materialOnly, rev, users, userBadges>>
    /\ \/ /\ call' = [call EXCEPT ![p] =
                  [Idle EXCEPT !.pc = "begun", !.user = u, !.delta = d,
                               !.pre = IF HasUser(u) THEN users[u].points ELSE 0]]
          /\ hist' = [hist EXCEPT ![u].raced = @ \/ InFlight(u) # {}]
       \/ /\ rev = "v2"                     \* db.Begin() fails
          /\ call' = call
          /\ hist' = [hist EXCEPT ![u].failed = TRUE]

-----------------------------------------------------------------------------
(* v2: unnamed/part_004, one transaction, rolled back on every error return *)

\* UPDATE users SET points = points + $1 ... WHERE id = $3 RETURNING points
V2UpdatePoints(p) ==
    LET u == call[p].user IN
    /\ rev = "v2"
    /\ call[p].pc = "begun"
    /\ UNCHANGED <<authOnly, resetOnly, sessionOnly, materialOnly, rev, users, userBadges, nCalls>>
    /\ \/ /\ HasUser(u)
          /\ ~RowLockedByOther(p, u)       \* else the statement waits
          /\ call' = [call EXCEPT ![p].pc = "updated",
                                  ![p].newPoints = PointsAfterUpdate(p, u, call[p].delta)]
          /\ hist' = hist
       \/ /\ ~HasUser(u)                   \* Scan: sql.ErrNoRows
          /\ Finish(p, FALSE, FALSE)
       \/ Finish(p, FALSE, FALSE)          \* the statement fails

\* the badge SELECT, reading what is committed plus the transaction's own rows
V2SelectBadges(p) ==
    LET u == call[p].user IN
    /\ rev = "v2"
    /\ call[p].pc = "updated"
    /\ UNCHANGED <<authOnly, resetOnly, sessionOnly, materialOnly, rev, users, userBadges, nCalls>>
    /\ \/ /\ call' = [call EXCEPT ![p].pc = "loop",
                                  ![p].rows = QualifyingBadges(call[p].newPoints,
                                                  HeldBadges(u) \cup call[p].pend)]
          /\ hist' = hist
       \/ Finish(p, FALSE, FALSE)

\* one turn of the loop: Scan, then INSERT INTO user_badges (no conflict clause)
V2InsertBadge(p) ==
    LET u == call[p].user IN
    /\ rev = "v2"
    /\ call[p].pc = "loop"
    /\ UNCHANGED <<authOnly, resetOnly, sessionOnly, materialOnly, rev, users, userBadges, nCalls>>
    /\ \E b \in call[p].rows :
        \/ /\ BadgeRows(u, b) = 0
           /\ call' = [call EXCEPT ![p].rows = @ \ {b}, ![p].pend = @ \cup {b}]
           /\ hist' = hist
        \/ /\ BadgeRows(u, b) > 0          \* primary key (user_id, badge_id)
           /\ Finish(p, FALSE, TRUE)
        \/ Finish(p, FALSE, FALSE)         \* Scan or INSERT fails

\* return tx.Commit()
V2Commit(p) ==
    LET u == call[p].user IN
    /\ rev = "v2"
    /\ call[p].pc = "loop"
    /\ call[p].rows = {}
    /\ UNCHANGED <<authOnly, resetOnly, sessionOnly, materialOnly, rev, nCalls>>
    /\ \/ /\ users' = [users EXCEPT ![u].points = call[p].newPoints]
          /\ userBadges' = userBadges (+) SetToBag({<<u, b>> : b \in call[p].pend})
          /\ call' = [call EXCEPT ![p] = Idle]
          /\ hist' = [hist EXCEPT ![u] =
                  [@ EXCEPT !.okSum = @ + call[p].delta,
                            !.okCount = @ + 1,
                            !.okBadges = @ \cup call[p].pend,
                            !.lastRead = call[p].newPoints]]
       \/ /\ UNCHANGED <<users, userBadges>>      \* commit fails: rolled back
          /\ Finish(p, FALSE, FALSE)

-----------------------------------------------------------------------------
(* v1: unnamed/part_005, UpdatePoints then CheckAndAssignBadges, each       *)
(* statement on its own connection and committed on its own                 *)

\* UpdatePoints: UPDATE users SET points = points + $1 WHERE id = $3 (Exec)
V1UpdatePoints(p) ==
    LET u == call[p].user IN
    /\ rev = "v1"
    /\ call[p].pc = "begun"
    /\ UNCHANGED <<authOnly, resetOnly, sessionOnly, materialOnly, rev, userBadges, nCalls>>
    /\ \/ /\ users' = IF HasUser(u)
                      THEN [users EXCEPT ![u].points = PointsAfterUpdate(p, u, call[p].delta)]
                      ELSE users               \* no row matched: not an error
          /\ call' = [call EXCEPT ![p].pc = "check"]
          /\ hist' = hist
       \/ /\ users' = users
          /\ Finish(p, FALSE, FALSE)

\* CheckAndAssignBadges: user, err := m.GetByID(userID)
V1GetByID(p) ==
    LET u == call[p].user IN
    /\ rev = "v1"
    /\ call[p].pc = "check"
    /\ UNCHANGED <<authOnly, resetOnly, sessionOnly, materialOnly, rev, users, userBadges, nCalls>>
    /\ \/ /\ HasUser(u)
          /\ call' = [call EXCEPT ![p].pc = "query", ![p].newPoints = users[u].points]
          /\ hist' = [hist EXCEPT ![u].lastRead = users[u].points]
       \/ /\ ~HasUser(u)                   \* "user not found"
          /\ Finish(p, FALSE, FALSE)
       \/ Finish(p, FALSE, FALSE)

\* the LEFT JOIN query for the badges not yet held
V1SelectBadges(p) ==
    LET u == call[p].user IN
    /\ rev = "v1"
    /\ call[p].pc = "query"
    /\ UNCHANGED <<authOnly, resetOnly, sessionOnly, materialOnly, rev, users, userBadges, nCalls>>
    /\ \/ /\ call' = [call EXCEPT ![p].pc = "loop",
                                  ![p].rows = QualifyingBadges(call[p].newPoints, HeldBadges(u))]
          /\ hist' = hist
       \/ Finish(p, FALSE, FALSE)

\* AssignBadge: INSERT ... ON CONFLICT (user_id, badge_id) DO NOTHING
AssignBadgeNoConflictClause(u, b) ==
    IF BadgeRows(u, b) > 0 THEN "unique_violation" ELSE "inserted"

AssignBadge(u, b) ==
    IF ~HasUser(u) THEN "foreign_key_violation"
    ELSE IF BadgeRows(u, b) > 0 THEN "nothing" ELSE "inserted"

\* one turn of the loop: Scan, then AssignBadge
V1AssignBadge(p) ==
    LET u == call[p].user IN
    /\ rev = "v1"
    /\ call[p].pc = "loop"
    /\ UNCHANGED <<authOnly, resetOnly, sessionOnly, materialOnly, rev, users, nCalls>>
    /\ \E b \in call[p].rows :
        \/ /\ AssignBadge(u, b) = "inserted"
           /\ userBadges' = userBadges (+) SetToBag({<<u, b>>})
           /\ call' = [call EXCEPT ![p].rows = @ \ {b}, ![p].pend = @ \cup {b}]
           /\ hist' = hist
        \/ /\ AssignBadge(u, b) = "nothing"
           /\ userBadges' = userBadges
           /\ call' = [call EXCEPT ![p].rows = @ \ {b}]
           /\ hist' = [hist EXCEPT ![u].dup = TRUE]
        \/ /\ AssignBadge(u, b) = "unique_violation"
           /\ userBadges' = userBadges
           /\ Finish(p, FALSE, TRUE)
        \/ /\ userBadges' = userBadges      \* Scan, the INSERT or the cursor fails
           /\ Finish(p, FALSE, FALSE)

\* return rows.Err() after the last row
V1Return(p) ==
    /\ rev = "v1"
    /\ call[p].pc = "loop"
    /\ call[p].rows = {}
    /\ UNCHANGED <<authOnly, resetOnly, sessionOnly, materialOnly, rev, users, userBadges, nCalls>>
    /\ \/ Finish(p, TRUE, FALSE)
       \/ Finish(p, FALSE, FALSE)

-----------------------------------------------------------------------------
(* The accounts the calls run against: a fresh profile (0 points, no badge) *)
(* or one that has uploaded nine materials (45 points, the threshold-0      *)
(* badge held).                                                             *)

UserRow(sn, email, pts, verified) ==
    [student_number |-> sn, first_name |-> "", last_name |-> "", email |-> email,
     is_student |-> TRUE, points |-> pts, email_verified |-> verified]

IdleReq == [pc |-> "idle", op |-> "none", sn |-> "", email |-> "", pw |-> "",
            token |-> 0, uid |-> 0, row |-> 0, pwOk |-> FALSE, wasVerified |-> FALSE]

NoLog == [registered |-> {}, verifiedOk |-> {}, loginOkUnverified |-> FALSE,
          loginBadAfterVerify |-> FALSE, tokenOk |-> {}, tokenOkTwice |-> {},
          regRolledBack |-> FALSE, verifyAnswered |-> {}, loginOk |-> FALSE,
          loginLeak |-> FALSE, dupNot409 |-> FALSE, dupSeen |-> FALSE, faultNot5xx |-> FALSE,
          sendFail |-> "none"]

\* the auth side at rest: nothing stored, nothing running
NoResetLog == [otpOk |-> {}, otpOkTwice |-> FALSE, otpOkStale |-> FALSE,
               pwChanged |-> {}, resetTwice |-> FALSE, resetOk |-> {}, returned |-> {}]

NoSessionLog == [acceptedUnpinned |-> FALSE, okSeen |-> FALSE, expiredSeen |-> FALSE,
                 earlyExpiry |-> FALSE, lateAccept |-> FALSE, expiryMismatch |-> FALSE,
                 refreshOk |-> FALSE, refreshWithAccess |-> FALSE, slid |-> FALSE,
                 ran |-> {}, refused |-> {}, ranUnentitled |-> FALSE, wrongStatus |-> FALSE,
                 loggedOut |-> {}, okAfterLogout |-> {}, refusedAfterLogout |-> FALSE]

SessionQuiet ==
    /\ clock = 0
    /\ nClock = 0
    /\ issued = {}
    /\ nSess = 0
    /\ slog = NoSessionLog

NoMaterialLog ==
    [latest |-> <<>>, revoted |-> FALSE, counted |-> FALSE, countWrong |-> FALSE,
     rebookmarked |-> FALSE, rebookmarkBad |-> FALSE,
     missingSeen |-> {}, missingNot404 |-> FALSE, deleteRefused |-> FALSE,
     userDeleted |-> FALSE, materialDeleted |-> FALSE, cascaded |-> FALSE,
     badgesDropped |-> FALSE, created |-> <<>>, updated |-> FALSE, updateLeak |-> FALSE]

MaterialQuiet ==
    /\ votes = {}
    /\ bookmarks = {}
    /\ materials = {}
    /\ uploaderOf = <<>>
    /\ reports = {}
    /\ mreq = <<>>
    /\ ureq = <<>>
    /\ nMat = 0
    /\ mlog = NoMaterialLog

AuthQuiet ==
    /\ credentials = <<>>
    /\ emailVerifications = {}
    /\ req = [p \in Workers |-> IdleReq]
    /\ nReqs = 0
    /\ now = 0
    /\ nTicks = 0
    /\ seqs = [uid |-> 0, tok |-> 0, row |-> 0, mat |-> 0]
    /\ alog = NoLog
    /\ resetTokens = {}
    /\ rlog = NoResetLog
    /\ SessionQuiet
    /\ MaterialQuiet

Init ==
    /\ rev \in Revs
    /\ \E kind \in [IdsOf(rev) -> {"fresh", "nine"}] :
        /\ users = [u \in IdsOf(rev) |->
                      UserRow("sn1", "a@x",
                              IF kind[u] = "fresh" THEN 0 ELSE 9 * UploadPoints, TRUE)]
        /\ userBadges = SetToBag({<<u, 1>> : u \in {v \in IdsOf(rev) : kind[v] = "nine"}})
    /\ AuthQuiet
    /\ call = [p \in Workers |-> Idle]
    /\ nCalls = 0
    /\ hist = [u \in IdsOf(rev) \cup {MissingId(rev)} |->
                IF u \in DOMAIN users
                THEN [NoHist EXCEPT !.basePoints = users[u].points,
                                    !.baseBadges = HeldBadges(u)]
                ELSE NoHist]

\* a step of a call that has been entered
Step(p) ==
    \/ V2UpdatePoints(p)
    \/ V2SelectBadges(p)
    \/ V2InsertBadge(p)
    \/ V2Commit(p)
    \/ V1UpdatePoints(p)
    \/ V1GetByID(p)
    \/ V1SelectBadges(p)
    \/ V1AssignBadge(p)
    \/ V1Return(p)

Next ==
    \E p \in Workers :
        \/ \E u \in DOMAIN hist, d \in Deltas : Start(p, u, d)
        \/ Step(p)

Spec == Init /\ [][Next]_vars

-----------------------------------------------------------------------------
(* Claims about the points/badges engine *)

\* C1: IncrementPointsAndCheckBadges is all-or-nothing: at every moment the
\* stored points and badge rows of a user are those of the calls that
\* returned nil, so a call that returns an error leaves nothing behind and
\* no reader sees an increment without its badge grants.
IncrementIsAllOrNothing ==
    \A u \in DOMAIN users :
        /\ users[u].points = hist[u].basePoints + hist[u].okSum
        /\ HeldBadges(u) = hist[u].baseBadges \cup hist[u].okBadges

\* C2: when every call for a user has returned nil, the stored points are the
\* initial points plus every delta, whatever the interleaving.
NoLostUpdate ==
    \A u \in DOMAIN users :
        (InFlight(u) = {} /\ ~hist[u].failed)
            => users[u].points = hist[u].basePoints + hist[u].okSum

TwoRacingIncrementsDone ==
    \E u \in DOMAIN users :
        /\ InFlight(u) = {}
        /\ ~hist[u].failed
        /\ hist[u].raced
        /\ hist[u].okCount >= 2

\* C3: after calls that all returned nil, the user holds every badge whose
\* threshold is at most the stored points, one row each, and keeps the
\* badges held before.
BadgesFollowPoints ==
    \A u \in DOMAIN users :
        (InFlight(u) = {} /\ ~hist[u].failed /\ hist[u].okCount >= 1)
            => /\ \A b \in Badges :
                    PointsRequired(b) <= users[u].points => BadgeRows(u, b) = 1
               /\ \A b \in hist[u].baseBadges : BadgeRows(u, b) = 1

TwoThresholdsCrossedInRace ==
    \E u \in DOMAIN users :
        /\ InFlight(u) = {}
        /\ ~hist[u].failed
        /\ hist[u].raced
        /\ hist[u].okCount = 2
        /\ hist[u].basePoints = 9 * UploadPoints
        /\ users[u].points = PointsRequired(3)
        /\ HeldBadges(u) = Badges

\* C4: an award of a badge that is already held changes nothing and is no
\* error: no call ever fails on the (user_id, badge_id) key and no pair has
\* two rows.
AwardIsIdempotent ==
    \A u \in DOMAIN users :
        /\ ~hist[u].conflictErr
        /\ \A b \in Badges : BadgeRows(u, b) <= 1

SameBadgeAwardedTwice ==
    \E u \in DOMAIN users :
        /\ hist[u].dup
        /\ InFlight(u) = {}
        /\ ~hist[u].failed
        /\ hist[u].okCount >= 2
        /\ \E b \in Badges \ hist[u].baseBadges : BadgeRows(u, b) = 1

\* C5: in every state the badges a user holds are exactly those whose
\* threshold is at most the points the latest badge check read, and none has
\* a threshold above the stored points.
BadgeSetMatchesLastCheck ==
    \A u \in DOMAIN users :
        /\ hist[u].lastRead >= 0 =>
             HeldBadges(u) = {b \in Badges : PointsRequired(b) <= hist[u].lastRead}
        /\ \A b \in HeldBadges(u) : PointsRequired(b) <= users[u].points

-----------------------------------------------------------------------------
(* Accounts: Register, VerifyEmail, Login                                   *)

SNs == {"sn1", "sn2"}

Emails == {"a@x", "A@x"}

Passwords == {"pw1", "pw2"}

\* strings.ToLower on the e-mail addresses above
ToLower(e) == IF e = "A@x" THEN "a@x" ELSE e

\* bcrypt: the hash matches the password it was made from and no other
HashPassword(pw) == <<"bcrypt", pw>>

CheckPassword(hash, pw) == hash = HashPassword(pw)

\* time.Now().Add(24*time.Hour), in minutes
VerificationTTL == 24 * 60

\* SELECT ... FROM users WHERE email = $1 (rows that match; no error)
UsersByEmail(e) == {id \in DOMAIN users : users[id].email = e}

\* SELECT ... FROM users WHERE student_number = $1 (v2) / WHERE id = $1 (v1)
UsersByStudentNumber(sn) ==
    IF rev = "v2" THEN {id \in DOMAIN users : users[id].student_number = sn}
    ELSE {id \in DOMAIN users : id = sn}

\* the accounts put into the store directly.  v1's Register cannot create
\* one (see V1Register), so a v1 store has only these.
Provisioned(r) == IF r = "v1" THEN {"sn1"} ELSE {}

Answer(p, log) ==
    /\ req' = [req EXCEPT ![p] = IdleReq]
    /\ alog' = log

\* history: a request in which a statement failed was answered
FaultAnswered(log, status) ==
    [log EXCEPT !.faultNot5xx = @ \/ status < 500]

\* a request is taken up by an idle worker
Accept(p) ==
    /\ req[p].pc = "idle"
    /\ nReqs < MaxReqs
    /\ nReqs' = nReqs + 1

-----------------------------------------------------------------------------
(* v2 Register: unnamed/part_001:68-170 *)

\* rows written by the open transaction of worker q, not yet committed
PendingCred(q) == req[q].op = "register" /\ req[q].pc \in {"cred", "user", "tok"}

PendingUser(q) == req[q].op = "register" /\ req[q].pc \in {"user", "tok"}

CredRowOf(q) == [email |-> ToLower(req[q].email), password_hash |-> HashPassword(req[q].pw)]

UserRowOf(q) == UserRow(req[q].sn, ToLower(req[q].email), 0, FALSE)

\* defer tx.Rollback(): what the table holds after an error return
TxRollbackKeepsRow(table, id, row) == (id :> row) @@ table

TxRollback(table, id, row) == table

\* an account holds the e-mail (as it is stored) or the student number
Held(email, sn) ==
    \/ \E id \in DOMAIN users : ToLower(users[id].email) = ToLower(email)
    \/ UsersByStudentNumber(sn) # {}

\* history: a Register request for a held e-mail or student number was answered
DuplicateAnswered(log, status) ==
    [log EXCEPT !.dupNot409 = @ \/ status # 409, !.dupSeen = TRUE]

\* the handler returns an error status from inside the transaction
RegisterFailsWith(p, log) ==
    /\ credentials' = IF PendingCred(p)
                      THEN TxRollback(credentials, req[p].uid, CredRowOf(p))
                      ELSE credentials
    /\ users' = IF PendingUser(p)
                THEN TxRollback(users, req[p].uid, UserRowOf(p))
                ELSE users
    /\ emailVerifications' = emailVerifications
    /\ Answer(p, [log EXCEPT !.regRolledBack = @ \/ PendingCred(p)])

RegisterFails(p) == RegisterFailsWith(p, alog)

\* an INSERT hits a UNIQUE constraint: 500
RegisterFailsOnDuplicate(p) == RegisterFailsWith(p, DuplicateAnswered(alog, 500))

\* what Register answers after the commit; the outcome of
\* SendVerificationEmail is only logged
RegisterResponseTellsSendFailure(sent) ==
    IF sent THEN <<201, "Registered. Verify your email.">>
    ELSE <<200, "Registration successful, but failed to send verification email">>

RegisterResponse(sent) == <<201, "Registered. Verify your email.">>

\* decode, validate, then GetByEmail(req.Email): only err == nil stops here
V2RegisterCheckEmail(p, sn, email, pw, wellFormed) ==
    /\ rev = "v2"
    /\ Accept(p)
    /\ UNCHANGED <<pointsOnly, sessionOnly, materialOnly, resetOnly, rev, users, credentials, emailVerifications, now, nTicks, seqs>>
    /\ \/ /\ ~wellFormed                        \* 400
          /\ Answer(p, alog)
       \/ /\ wellFormed
          /\ UsersByEmail(email) # {}           \* 409
          /\ Answer(p, alog)
       \/ /\ wellFormed                         \* no row, or the query failed
          /\ req' = [req EXCEPT ![p] = [IdleReq EXCEPT !.pc = "chkSN", !.op = "register",
                                           !.sn = sn, !.email = email, !.pw = pw]]
          /\ alog' = alog

\* GetByStudentNumber, then HashPassword and h.db.Begin()
V2RegisterCheckSN(p) ==
    /\ rev = "v2"
    /\ req[p].op = "register" /\ req[p].pc = "chkSN"
    /\ UNCHANGED <<pointsOnly, sessionOnly, materialOnly, resetOnly, rev, users, credentials, emailVerifications, nReqs, now, nTicks, seqs>>
    /\ \/ /\ UsersByStudentNumber(req[p].sn) # {}     \* 409
          /\ Answer(p, alog)
       \/ Answer(p, alog)                        \* hashing or Begin fails: 500
       \/ /\ req' = [req EXCEPT ![p].pc = "begun"]
          /\ alog' = alog

\* INSERT INTO user_credentials (email, ...) VALUES (lower(email), ...) RETURNING id
V2RegisterInsertCred(p) ==
    LET e == ToLower(req[p].email) IN
    /\ rev = "v2"
    /\ req[p].op = "register" /\ req[p].pc = "begun"
    /\ UNCHANGED <<pointsOnly, sessionOnly, materialOnly, resetOnly, rev, nReqs, now, nTicks>>
    /\ \/ /\ \A id \in DOMAIN credentials : credentials[id].email # e
          /\ \A q \in Workers \ {p} : PendingCred(q) => ToLower(req[q].email) # e   \* else waits
          /\ seqs' = [seqs EXCEPT !.uid = @ + 1]
          /\ req' = [req EXCEPT ![p].pc = "cred", ![p].uid = seqs.uid + 1]
          /\ UNCHANGED <<users, credentials, emailVerifications, alog>>
       \/ /\ \E id \in DOMAIN credentials : credentials[id].email = e   \* UNIQUE (email): 500
          /\ seqs' = [seqs EXCEPT !.uid = @ + 1]       \* nextval is not rolled back
          /\ RegisterFailsOnDuplicate(p)
       \/ /\ seqs' = seqs                        \* the statement fails: 500
          /\ RegisterFails(p)

\* UserModel.Create(tx, user): INSERT INTO users
V2RegisterInsertUser(p) ==
    LET e == ToLower(req[p].email)
        clash(row) == row.email = e \/ row.student_number = req[p].sn
    IN
    /\ rev = "v2"
    /\ req[p].op = "register" /\ req[p].pc = "cred"
    /\ UNCHANGED <<pointsOnly, sessionOnly, materialOnly, resetOnly, rev, nReqs, now, nTicks, seqs>>
    /\ \/ /\ \A id \in DOMAIN users : ~clash(users[id])
          /\ \A q \in Workers \ {p} : PendingUser(q) => ~clash(UserRowOf(q))   \* else waits
          /\ req' = [req EXCEPT ![p].pc = "user"]
          /\ UNCHANGED <<users, credentials, emailVerifications, alog>>
       \/ /\ \E id \in DOMAIN users : clash(users[id])     \* UNIQUE: 500
          /\ RegisterFailsOnDuplicate(p)
       \/ RegisterFails(p)                       \* the statement fails: 500

\* GenerateRandomToken(32), then StoreVerificationToken(tx, ...)
V2RegisterStoreToken(p) ==
    /\ rev = "v2"
    /\ req[p].op = "register" /\ req[p].pc = "user"
    /\ UNCHANGED <<pointsOnly, sessionOnly, materialOnly, resetOnly, rev, nReqs, now, nTicks>>
    /\ \/ /\ seqs' = [seqs EXCEPT !.tok = @ + 1]
          /\ req' = [req EXCEPT ![p].pc = "tok", ![p].token = seqs.tok + 1]
          /\ UNCHANGED <<users, credentials, emailVerifications, alog>>
       \/ /\ seqs' = seqs                        \* rand.Read or the INSERT fails: 500
          /\ RegisterFails(p)

\* tx.Commit(), SendVerificationEmail (its error is only logged), 201
V2RegisterCommit(p) ==
    LET id == req[p].uid IN
    /\ rev = "v2"
    /\ req[p].op = "register" /\ req[p].pc = "tok"
    /\ UNCHANGED <<pointsOnly, sessionOnly, materialOnly, resetOnly, rev, nReqs, now, nTicks, seqs>>
    /\ \/ /\ credentials' = (id :> CredRowOf(p)) @@ credentials
          /\ users' = (id :> UserRowOf(p)) @@ users
          /\ emailVerifications' = emailVerifications \cup
                {[user_id |-> id, token |-> req[p].token, expires_at |-> now + VerificationTTL]}
          /\ \E sent \in BOOLEAN :
                Answer(p, [alog EXCEPT
                   !.registered = @ \cup {id},
                   !.dupNot409 = @ \/ Held(req[p].email, req[p].sn),
                   !.sendFail =
                      IF sent \/ @ = "differs" THEN @
                      ELSE IF /\ RegisterResponse(FALSE) = RegisterResponse(TRUE)
                              /\ id \in DOMAIN credentials' /\ id \in DOMAIN users'
                              /\ \E r \in emailVerifications' : r.user_id = id
                           THEN "same" ELSE "differs"])
       \/ RegisterFails(p)                       \* commit fails: 500

-----------------------------------------------------------------------------
(* v1 Register: backend/internal/api/handlers/auth.go:52-137 *)

\* errors.Is(err, errors.New("user not found")) compares err with a value made
\* on the spot, so it is false for every err GetByEmail can return: a request
\* whose e-mail is not stored is answered 500, and UserModel.Create is never
\* reached.
V1Register(p, sn, email, pw, wellFormed) ==
    /\ rev = "v1"
    /\ Accept(p)
    /\ UNCHANGED <<pointsOnly, sessionOnly, materialOnly, resetOnly, rev, users, credentials, emailVerifications, now, nTicks, seqs>>
    /\ \/ /\ ~wellFormed                        \* 400
          /\ Answer(p, alog)
       \/ /\ wellFormed
          /\ UsersByEmail(email) # {}           \* 409
          /\ Answer(p, alog)
       \/ /\ wellFormed                         \* no such e-mail: 500
          /\ UsersByEmail(email) = {}
          /\ Answer(p, IF Held(email, sn) THEN DuplicateAnswered(alog, 500) ELSE alog)
       \/ /\ wellFormed                         \* the query failed: 500
          /\ Answer(p, alog)

-----------------------------------------------------------------------------
(* VerifyEmail *)

\* the tokens a request may carry: none (0), one nobody issued (-1), any issued
TokenInputs == {-1, 0} \cup 1..seqs.tok

\* SELECT user_id FROM email_verifications WHERE token = $1 AND expires_at > NOW()
VerifyEmailToken(token) ==
    {r \in emailVerifications : r.token = token /\ r.expires_at > now}

VerifyEmailOk(p, token, id) ==
    Answer(p, [alog EXCEPT !.tokenOk = @ \cup {token},
                           !.tokenOkTwice = @ \cup ({token} \cap alog.tokenOk),
                           !.verifyAnswered = @ \cup {id}])

\* unnamed/part_001:172-183
V2VerifyEmailLookup(p, token) ==
    /\ rev = "v2"
    /\ Accept(p)
    /\ UNCHANGED <<pointsOnly, sessionOnly, materialOnly, resetOnly, rev, users, credentials, emailVerifications, now, nTicks, seqs>>
    /\ \/ /\ token = 0                          \* 400 Missing token
          /\ Answer(p, alog)
       \/ /\ token # 0                          \* no row: 400
          /\ VerifyEmailToken(token) = {}
          /\ Answer(p, alog)
       \/ /\ token # 0                          \* the query failed: 400
          /\ Answer(p, FaultAnswered(alog, 400))
       \/ /\ token # 0
          /\ \E r \in VerifyEmailToken(token) :
                req' = [req EXCEPT ![p] = [IdleReq EXCEPT !.pc = "upd", !.op = "verify",
                                              !.token = token, !.uid = r.user_id]]
          /\ alog' = alog

\* UserModel.VerifyEmail: UPDATE users SET email_verified = true WHERE id = $2
V2VerifyEmailUpdate(p) ==
    LET id == req[p].uid IN
    /\ rev = "v2"
    /\ req[p].op = "verify" /\ req[p].pc = "upd"
    /\ UNCHANGED <<pointsOnly, sessionOnly, materialOnly, resetOnly, rev, credentials, emailVerifications, nReqs, now, nTicks, seqs>>
    /\ \/ /\ users' = [u \in DOMAIN users |->
                         IF u = id THEN [users[u] EXCEPT !.email_verified = TRUE] ELSE users[u]]
          /\ req' = [req EXCEPT ![p].pc = "del"]
          /\ alog' = [alog EXCEPT !.verifiedOk = @ \cup {id}]
       \/ /\ users' = users                     \* 500 Verification failed
          /\ Answer(p, alog)

\* DeleteVerificationToken; its error is only logged
V2VerifyEmailDelete(p) ==
    /\ rev = "v2"
    /\ req[p].op = "verify" /\ req[p].pc = "del"
    /\ UNCHANGED <<pointsOnly, sessionOnly, materialOnly, resetOnly, rev, users, credentials, nReqs, now, nTicks, seqs>>
    /\ \/ emailVerifications' = {r \in emailVerifications : r.token # req[p].token}
       \/ emailVerifications' = emailVerifications
    /\ VerifyEmailOk(p, req[p].token, req[p].uid)

\* backend/internal/api/handlers/auth.go:140-155: nothing is looked up or stored
V1VerifyEmail(p, token) ==
    /\ rev = "v1"
    /\ Accept(p)
    /\ UNCHANGED <<pointsOnly, sessionOnly, materialOnly, resetOnly, rev, users, credentials, emailVerifications, now, nTicks, seqs>>
    /\ \/ /\ token = 0                          \* 400 Missing token
          /\ Answer(p, alog)
       \/ /\ token # 0
          /\ Answer(p, [alog EXCEPT !.tokenOk = @ \cup {token},
                                    !.tokenOkTwice = @ \cup ({token} \cap alog.tokenOk)])

-----------------------------------------------------------------------------
(* Login *)

\* what Login answers when the student number has no account, when the
\* password is wrong, and (unnamed/part_001 only) when the e-mail is unverified
NoSuchAccount(r) ==
    IF r = "v2" THEN <<401, "Invalid credentials">>
    ELSE <<401, "Invalid student number or password">>

WrongPassword(r) ==
    IF r = "v2" THEN <<401, "Invalid credentials">>
    ELSE <<401, "Invalid student number or password">>

EmailNotVerified == <<401, "Email not verified">>

\* history: a Login for an existing account with a wrong password was answered
WrongPasswordAnswered(log, resp) ==
    [log EXCEPT !.loginLeak = @ \/ resp # NoSuchAccount(rev)]

\* the request names a stored account, carries its password, and the account's
\* e-mail verification had succeeded when the request arrived
LoginStart(p, id, sn, pw) ==
    [IdleReq EXCEPT !.pc = "hash", !.op = "login", !.sn = sn, !.pw = pw, !.uid = id,
                    !.pwOk = id \in DOMAIN credentials
                             /\ CheckPassword(credentials[id].password_hash, pw),
                    !.wasVerified = id \in alog.verifiedOk]

\* 200 with an access and a refresh token
LoginOk(p) ==
    Answer(p, [alog EXCEPT !.loginOkUnverified = @ \/ req[p].uid \notin alog.verifiedOk,
                           !.loginOk = TRUE])

\* 401 although no statement failed
LoginRejected(p) ==
    Answer(p, [WrongPasswordAnswered(alog, WrongPassword(rev))
                 EXCEPT !.loginBadAfterVerify = @ \/ (req[p].pwOk /\ req[p].wasVerified)])

\* unnamed/part_001:197-221
V2LoginGetUser(p, sn, pw) ==
    /\ rev = "v2"
    /\ Accept(p)
    /\ UNCHANGED <<pointsOnly, sessionOnly, materialOnly, resetOnly, rev, users, credentials, emailVerifications, now, nTicks, seqs>>
    /\ \/ /\ UsersByStudentNumber(sn) = {}      \* 401 Invalid credentials
          /\ Answer(p, alog)
       \/ Answer(p, FaultAnswered(alog, 401))   \* the query fails: 401
       \/ \E id \in UsersByStudentNumber(sn) :
             IF ~users[id].email_verified
             THEN /\ req' = [req EXCEPT ![p] = IdleReq]    \* 401 Email not verified
                  /\ alog' = [(IF LoginStart(p, id, sn, pw).pwOk THEN alog
                               ELSE WrongPasswordAnswered(alog, EmailNotVerified))
                              EXCEPT !.loginBadAfterVerify =
                                 @ \/ (LoginStart(p, id, sn, pw).pwOk /\ id \in alog.verifiedOk)]
             ELSE /\ req' = [req EXCEPT ![p] = LoginStart(p, id, sn, pw)]
                  /\ alog' = alog

\* unnamed/part_001:223-264
V2LoginCheckPassword(p) ==
    LET id == req[p].uid IN
    /\ rev = "v2"
    /\ req[p].op = "login" /\ req[p].pc = "hash"
    /\ UNCHANGED <<pointsOnly, sessionOnly, materialOnly, resetOnly, rev, users, credentials, emailVerifications, nReqs, now, nTicks, seqs>>
    /\ \/ Answer(p, FaultAnswered(alog, 401))   \* GetPasswordHash fails: 401
       \/ Answer(p, FaultAnswered(alog, 500))   \* GenerateJWT fails: 500
       \/ /\ id \in DOMAIN credentials
          /\ IF CheckPassword(credentials[id].password_hash, req[p].pw)
             THEN LoginOk(p)
             ELSE LoginRejected(p)

\* backend/internal/api/handlers/auth.go:158-182: the verification check is
\* commented out
V1LoginGetUser(p, sn, pw) ==
    /\ rev = "v1"
    /\ Accept(p)
    /\ UNCHANGED <<pointsOnly, sessionOnly, materialOnly, resetOnly, rev, users, credentials, emailVerifications, now, nTicks, seqs>>
    /\ \/ /\ UsersByStudentNumber(sn) = {}      \* 401
          /\ Answer(p, alog)
       \/ Answer(p, FaultAnswered(alog, 401))   \* the query fails: 401
       \/ \E id \in UsersByStudentNumber(sn) :
             /\ req' = [req EXCEPT ![p] = LoginStart(p, id, sn, pw)]
             /\ alog' = alog

\* backend/internal/api/handlers/auth.go:184-244
V1LoginCheckPassword(p) ==
    LET id == req[p].uid IN
    /\ rev = "v1"
    /\ req[p].op = "login" /\ req[p].pc = "hash"
    /\ UNCHANGED <<pointsOnly, sessionOnly, materialOnly, resetOnly, rev, users, credentials, emailVerifications, nReqs, now, nTicks, seqs>>
    /\ \/ Answer(p, FaultAnswered(alog, 401))   \* GetPasswordHash fails: 401
       \/ Answer(p, FaultAnswered(alog, 500))   \* GenerateJWT fails: 500
       \/ /\ id \in DOMAIN credentials
          /\ IF CheckPassword(credentials[id].password_hash, req[p].pw)
             THEN LoginOk(p)
             ELSE LoginRejected(p)

\* time passes: one token lifetime
Tick ==
    /\ nTicks < MaxTicks
    /\ nTicks' = nTicks + 1
    /\ now' = now + VerificationTTL
    /\ UNCHANGED <<pointsOnly, sessionOnly, materialOnly, resetOnly, rev, users, credentials, emailVerifications, req, nReqs, seqs, alog>>

AuthInit ==
    /\ rev \in Revs
    /\ users = [id \in Provisioned(rev) |-> UserRow(id, "a@x", 0, FALSE)]
    /\ credentials = [id \in Provisioned(rev) |->
                         [email |-> "a@x", password_hash |-> HashPassword("pw1")]]
    /\ emailVerifications = {}
    /\ req = [p \in Workers |-> IdleReq]
    /\ nReqs = 0
    /\ now = 0
    /\ nTicks = 0
    /\ seqs = [uid |-> 0, tok |-> 0, row |-> 0, mat |-> 0]
    /\ alog = NoLog
    /\ resetTokens = {}
    /\ rlog = NoResetLog
    /\ SessionQuiet
    /\ MaterialQuiet
    /\ userBadges = EmptyBag
    /\ call = [p \in Workers |-> Idle]
    /\ nCalls = 0
    /\ hist = [u \in {} |-> NoHist]

AuthNext ==
    \/ \E p \in Workers, sn \in SNs, e \in Emails, pw \in Passwords, wf \in BOOLEAN :
          V2RegisterCheckEmail(p, sn, e, pw, wf)
    \/ \E p \in Workers : V2RegisterCheckSN(p)
    \/ \E p \in Workers : V2RegisterInsertCred(p)
    \/ \E p \in Workers : V2RegisterInsertUser(p)
    \/ \E p \in Workers : V2RegisterStoreToken(p)
    \/ \E p \in Workers : V2RegisterCommit(p)
    \/ \E p \in Workers, sn \in SNs, e \in Emails, pw \in Passwords, wf \in BOOLEAN :
          V1Register(p, sn, e, pw, wf)
    \/ \E p \in Workers, t \in TokenInputs : V2VerifyEmailLookup(p, t)
    \/ \E p \in Workers : V2VerifyEmailUpdate(p)
    \/ \E p \in Workers : V2VerifyEmailDelete(p)
    \/ \E p \in Workers, t \in TokenInputs : V1VerifyEmail(p, t)
    \/ \E p \in Workers, sn \in SNs, pw \in Passwords : V2LoginGetUser(p, sn, pw)
    \/ \E p \in Workers : V2LoginCheckPassword(p)
    \/ \E p \in Workers, sn \in SNs, pw \in Passwords : V1LoginGetUser(p, sn, pw)
    \/ \E p \in Workers : V1LoginCheckPassword(p)
    \/ Tick

AuthSpec == AuthInit /\ [][AuthNext]_vars

-----------------------------------------------------------------------------
(* Properties of the account flows *)

\* C6: a Login with the right student number and password is answered 401
\* while the account's e-mail verification has not succeeded, and is answered
\* with tokens once it has.
LoginGatedOnVerification ==
    /\ ~alog.loginOkUnverified
    /\ ~alog.loginBadAfterVerify

\* C7: Register is all-or-nothing: the credential, profile and verification
\* rows in the store are those of the registrations that were answered 201,
\* whatever step the other attempts failed at.
RegistrationIsAllOrNothing ==
    /\ DOMAIN credentials = alog.registered \cup Provisioned(rev)
    /\ DOMAIN users = alog.registered \cup Provisioned(rev)
    /\ \A r \in emailVerifications : r.user_id \in alog.registered
    /\ \A id \in alog.registered :
          /\ credentials[id].email = users[id].email
          /\ \A p \in Workers : PendingCred(p) => req[p].uid # id

\* an attempt failed after it had written rows, and an attempt succeeded
RegisterFailedThenSucceeded ==
    /\ alog.regRolledBack
    /\ alog.registered # {}
    /\ seqs.uid > Cardinality(alog.registered)

\* C8: a verification token is single-use: at most one VerifyEmail request
\* carrying it is answered with success, and its row is gone afterwards.
VerificationTokenSingleUse ==
    /\ alog.tokenOkTwice = {}
    /\ \A r \in emailVerifications : r.token \notin alog.tokenOk

-----------------------------------------------------------------------------
(* Password reset: ForgotPassword, VerifyOTP, ResetPassword                 *)
(* No request of this flow writes the table users, so each handler's        *)
(* GetByEmail is taken together with the statement that follows it.         *)

\* time.Now().Add(15*time.Minute)
ResetTTL == 15

\* what GenerateOTP(6) can return: six decimal digits
OTPCodes == {"000000", "999999"}

\* a string of six digits, as the OTP check of VerifyOTP demands
Digits(code) == <<"digits", code>>

\* hex.EncodeToString of the n-th value drawn from crypto/rand
Hex(n) == <<"hex", n>>

\* the reset tokens a ResetPassword request may carry: one nobody issued,
\* any issued, and anything stored in the token column
ResetTokenInputs ==
    {Hex(0)} \cup {Hex(n) : n \in 1..seqs.tok} \cup {r.token : r \in resetTokens}

\* SELECT id FROM reset_tokens WHERE user_id = $1 AND token = $2 AND expires_at > NOW()
LiveResetRows(id, token) ==
    {r \in resetTokens : r.user_id = id /\ r.token = token /\ r.expires_at > now}

\* a request of the reset flow is taken up by an idle worker
ResetAccept(p) ==
    /\ req[p].pc = "idle"
    /\ nReqs < MaxResetReqs
    /\ nReqs' = nReqs + 1

RAnswer(p, log) ==
    /\ req' = [req EXCEPT ![p] = IdleReq]
    /\ rlog' = log

\* unnamed/part_001:322-343
V2ForgotPassword(p, email, wellFormed) ==
    /\ rev = "v2"
    /\ ResetAccept(p)
    /\ UNCHANGED <<pointsOnly, sessionOnly, materialOnly, rev, users, credentials, emailVerifications, alog,
                   now, nTicks, seqs, resetTokens>>
    /\ \/ /\ ~wellFormed                        \* 400
          /\ RAnswer(p, rlog)
       \/ /\ wellFormed                         \* no such user, or the query failed: 200
          /\ RAnswer(p, rlog)
       \/ /\ wellFormed
          /\ \E id \in UsersByEmail(email) :
                req' = [req EXCEPT ![p] = [IdleReq EXCEPT !.pc = "otp", !.op = "forgot",
                                              !.email = email, !.uid = id]]
          /\ rlog' = rlog

\* GenerateOTP(6), StoreOTP, SendPasswordResetEmail (its error is only logged)
V2ForgotPasswordStoreOTP(p) ==
    /\ rev = "v2"
    /\ req[p].op = "forgot" /\ req[p].pc = "otp"
    /\ UNCHANGED <<pointsOnly, sessionOnly, materialOnly, rev, users, credentials, emailVerifications, alog,
                   nReqs, now, nTicks>>
    /\ \/ /\ \E code \in OTPCodes :
                resetTokens' = resetTokens \cup
                   {[id |-> seqs.row + 1, user_id |-> req[p].uid, token |-> Digits(code),
                     expires_at |-> now + ResetTTL]}
          /\ seqs' = [seqs EXCEPT !.row = @ + 1]
          /\ RAnswer(p, rlog)                    \* 200
       \/ /\ UNCHANGED <<resetTokens, seqs>>     \* 500
          /\ RAnswer(p, rlog)

\* unnamed/part_001:360-380 and the SELECT of UserModel.VerifyOTP
V2VerifyOTPSelect(p, email, code, wellFormed) ==
    /\ rev = "v2"
    /\ ResetAccept(p)
    /\ UNCHANGED <<pointsOnly, sessionOnly, materialOnly, rev, users, credentials, emailVerifications, alog,
                   now, nTicks, seqs, resetTokens>>
    /\ \/ /\ ~wellFormed                        \* 400
          /\ RAnswer(p, rlog)
       \/ /\ wellFormed                         \* no user, no row, or a query failed: 400
          /\ RAnswer(p, rlog)
       \/ /\ wellFormed
          /\ \E id \in UsersByEmail(email) :
             \E r \in LiveResetRows(id, Digits(code)) :
                req' = [req EXCEPT ![p] = [IdleReq EXCEPT !.pc = "del", !.op = "otp",
                                              !.email = email, !.uid = id,
                                              !.token = Digits(code), !.row = r.id,
                                              !.wasVerified = r.expires_at <= now]]
          /\ rlog' = rlog

\* DELETE FROM reset_tokens WHERE id = $1; the number of rows deleted is not looked at
V2VerifyOTPDelete(p) ==
    /\ rev = "v2"
    /\ req[p].op = "otp" /\ req[p].pc = "del"
    /\ UNCHANGED <<pointsOnly, sessionOnly, materialOnly, rev, users, credentials, emailVerifications, alog,
                   nReqs, now, nTicks, seqs>>
    /\ \/ /\ resetTokens' = {r \in resetTokens : r.id # req[p].row}
          /\ req' = [req EXCEPT ![p].pc = "tok"]
          /\ rlog' = rlog
       \/ /\ resetTokens' = resetTokens          \* 400 Invalid or expired OTP
          /\ RAnswer(p, rlog)

\* the (email, OTP, row) a successful VerifyOTP consumed
OtpKey(p) == <<req[p].email, req[p].token, req[p].row>>

VerifyOTPOk(p, stale) ==
    RAnswer(p, [rlog EXCEPT !.otpOk = @ \cup {OtpKey(p)},
                            !.otpOkTwice = @ \/ OtpKey(p) \in rlog.otpOk,
                            !.otpOkStale = @ \/ stale,
                            !.returned = @ \cup {<<req[p].email, Hex(seqs.tok + 1)>>}])

\* GenerateRandomToken(32), StoreResetToken, answer with the reset token
V2VerifyOTPStoreResetToken(p) ==
    /\ rev = "v2"
    /\ req[p].op = "otp" /\ req[p].pc = "tok"
    /\ UNCHANGED <<pointsOnly, sessionOnly, materialOnly, rev, users, credentials, emailVerifications, alog,
                   nReqs, now, nTicks>>
    /\ \/ /\ resetTokens' = resetTokens \cup
                   {[id |-> seqs.row + 1, user_id |-> req[p].uid, token |-> Hex(seqs.tok + 1),
                     expires_at |-> now + ResetTTL]}
          /\ seqs' = [seqs EXCEPT !.row = @ + 1, !.tok = @ + 1]
          /\ VerifyOTPOk(p, req[p].wasVerified)
       \/ /\ UNCHANGED <<resetTokens, seqs>>     \* 500
          /\ RAnswer(p, rlog)

\* backend/internal/api/handlers/auth.go:375-408: the OTP is not compared with anything
V1VerifyOTP(p, email, code, wellFormed) ==
    /\ rev = "v1"
    /\ ResetAccept(p)
    /\ UNCHANGED <<pointsOnly, sessionOnly, materialOnly, rev, users, credentials, emailVerifications, alog,
                   now, nTicks, resetTokens>>
    /\ \/ /\ ~wellFormed                        \* 400
          /\ seqs' = seqs
          /\ RAnswer(p, rlog)
       \/ /\ wellFormed                         \* GenerateRandomToken fails: 500
          /\ seqs' = seqs
          /\ RAnswer(p, rlog)
       \/ /\ wellFormed
          /\ seqs' = [seqs EXCEPT !.tok = @ + 1]
          /\ req' = [req EXCEPT ![p] = IdleReq]
          /\ rlog' = [rlog EXCEPT !.otpOk = @ \cup {<<email, Digits(code), 0>>},
                                  !.otpOkTwice = @ \/ <<email, Digits(code), 0>> \in rlog.otpOk,
                                  !.otpOkStale = TRUE,
                                  !.returned = @ \cup {<<email, Hex(seqs.tok + 1)>>}]

\* backend/internal/api/handlers/auth.go:330-372: the OTP is mailed, not stored
V1ForgotPassword(p, email, wellFormed) ==
    /\ rev = "v1"
    /\ ResetAccept(p)
    /\ UNCHANGED <<pointsOnly, sessionOnly, materialOnly, rev, users, credentials, emailVerifications, alog,
                   now, nTicks, seqs, resetTokens>>
    /\ \/ /\ ~wellFormed                        \* 400
          /\ RAnswer(p, rlog)
       \/ /\ wellFormed                         \* 200, or 500 when the mail fails
          /\ RAnswer(p, rlog)

\* the (email, reset token, row) a ResetPassword request acted on
ResetKey(p) == <<req[p].email, req[p].token, req[p].row>>

\* unnamed/part_001:400-424 with UserModel.VerifyResetToken
V2ResetPasswordVerify(p, email, token, pw, wellFormed) ==
    /\ rev = "v2"
    /\ ResetAccept(p)
    /\ UNCHANGED <<pointsOnly, sessionOnly, materialOnly, rev, users, credentials, emailVerifications, alog,
                   now, nTicks, seqs, resetTokens>>
    /\ \/ /\ ~wellFormed                        \* 400
          /\ RAnswer(p, rlog)
       \/ /\ wellFormed                         \* 404, or 400 Invalid or expired token
          /\ RAnswer(p, rlog)
       \/ /\ wellFormed
          /\ \E id \in UsersByEmail(email) :
             \E r \in LiveResetRows(id, token) :
                req' = [req EXCEPT ![p] = [IdleReq EXCEPT !.pc = "upd", !.op = "reset",
                                              !.email = email, !.uid = id, !.pw = pw,
                                              !.token = token, !.row = r.id]]
          /\ rlog' = rlog

\* HashPassword, then UPDATE user_credentials SET password_hash = $1 WHERE id = $2
V2ResetPasswordUpdate(p) ==
    LET id == req[p].uid IN
    /\ rev = "v2"
    /\ req[p].op = "reset" /\ req[p].pc = "upd"
    /\ UNCHANGED <<pointsOnly, sessionOnly, materialOnly, rev, users, emailVerifications, alog,
                   nReqs, now, nTicks, seqs, resetTokens>>
    /\ \/ /\ credentials' = [c \in DOMAIN credentials |->
                IF c = id THEN [credentials[c] EXCEPT !.password_hash = HashPassword(req[p].pw)]
                ELSE credentials[c]]
          /\ req' = [req EXCEPT ![p].pc = "del"]
          /\ rlog' = [rlog EXCEPT !.pwChanged = @ \cup {ResetKey(p)},
                                  !.resetTwice = @ \/ ResetKey(p) \in rlog.pwChanged]
       \/ /\ credentials' = credentials          \* 500
          /\ RAnswer(p, rlog)

\* DeleteResetToken; its error is only logged
V2ResetPasswordDelete(p) ==
    /\ rev = "v2"
    /\ req[p].op = "reset" /\ req[p].pc = "del"
    /\ UNCHANGED <<pointsOnly, sessionOnly, materialOnly, rev, users, credentials, emailVerifications, alog,
                   nReqs, now, nTicks, seqs>>
    /\ \/ resetTokens' = {r \in resetTokens :
                             ~(r.user_id = req[p].uid /\ r.token = req[p].token)}
       \/ resetTokens' = resetTokens
    /\ RAnswer(p, [rlog EXCEPT !.resetOk = @ \cup {ResetKey(p)}])

\* backend/internal/api/handlers/auth.go:411-455: the reset token is not compared
\* with anything
V1ResetPassword(p, email, token, pw, wellFormed) ==
    LET key == <<email, token, 0>> IN
    /\ rev = "v1"
    /\ ResetAccept(p)
    /\ UNCHANGED <<pointsOnly, sessionOnly, materialOnly, rev, users, emailVerifications, alog,
                   now, nTicks, seqs, resetTokens>>
    /\ \/ /\ ~wellFormed                        \* 400
          /\ credentials' = credentials
          /\ RAnswer(p, rlog)
       \/ /\ wellFormed                         \* 404, or 500
          /\ credentials' = credentials
          /\ RAnswer(p, rlog)
       \/ /\ wellFormed
          /\ \E id \in UsersByEmail(email) :
                credentials' = [c \in DOMAIN credentials |->
                   IF c = id THEN [credentials[c] EXCEPT !.password_hash = HashPassword(pw)]
                   ELSE credentials[c]]
          /\ RAnswer(p, [rlog EXCEPT !.pwChanged = @ \cup {key},
                                     !.resetTwice = @ \/ key \in rlog.pwChanged,
                                     !.resetOk = @ \cup {key}])

\* time passes: one OTP lifetime
ResetTick ==
    /\ nTicks < MaxTicks
    /\ nTicks' = nTicks + 1
    /\ now' = now + ResetTTL
    /\ UNCHANGED <<pointsOnly, sessionOnly, materialOnly, rev, users, credentials, emailVerifications, alog,
                   req, nReqs, seqs, resetOnly>>

ResetInit ==
    /\ rev \in Revs
    /\ users = [id \in IdsOf(rev) |-> UserRow("sn1", "a@x", 0, TRUE)]
    /\ credentials = [id \in IdsOf(rev) |->
                         [email |-> "a@x", password_hash |-> HashPassword("pw1")]]
    /\ emailVerifications = {}
    /\ req = [p \in Workers |-> IdleReq]
    /\ nReqs = 0
    /\ now = 0
    /\ nTicks = 0
    /\ seqs = [uid |-> 1, tok |-> 0, row |-> 0, mat |-> 0]
    /\ alog = NoLog
    /\ resetTokens = {}
    /\ rlog = NoResetLog
    /\ SessionQuiet
    /\ MaterialQuiet
    /\ userBadges = EmptyBag
    /\ call = [p \in Workers |-> Idle]
    /\ nCalls = 0
    /\ hist = [u \in {} |-> NoHist]

ResetNext ==
    \/ \E p \in Workers, e \in Emails, wf \in BOOLEAN : V2ForgotPassword(p, e, wf)
    \/ \E p \in Workers : V2ForgotPasswordStoreOTP(p)
    \/ \E p \in Workers, e \in Emails, c \in OTPCodes, wf \in BOOLEAN :
          V2VerifyOTPSelect(p, e, c, wf)
    \/ \E p \in Workers : V2VerifyOTPDelete(p)
    \/ \E p \in Workers : V2VerifyOTPStoreResetToken(p)
    \/ \E p \in Workers, e \in Emails, t \in ResetTokenInputs, pw \in Passwords, wf \in BOOLEAN :
          V2ResetPasswordVerify(p, e, t, pw, wf)
    \/ \E p \in Workers : V2ResetPasswordUpdate(p)
    \/ \E p \in Workers : V2ResetPasswordDelete(p)
    \/ \E p \in Workers, e \in Emails, wf \in BOOLEAN : V1ForgotPassword(p, e, wf)
    \/ \E p \in Workers, e \in Emails, c \in OTPCodes, wf \in BOOLEAN : V1VerifyOTP(p, e, c, wf)
    \/ \E p \in Workers, e \in Emails, t \in ResetTokenInputs, pw \in Passwords, wf \in BOOLEAN :
          V1ResetPassword(p, e, t, pw, wf)
    \/ ResetTick

ResetSpec == ResetInit /\ [][ResetNext]_vars

\* C9: a password-reset token is single-use: at most one ResetPassword request
\* carrying it changes the password, and once a reset with it has succeeded
\* its row is gone.
ResetTokenSingleUse ==
    /\ ~rlog.resetTwice
    /\ \A k \in rlog.resetOk : \A r \in resetTokens : r.id # k[3]

\* C10: an OTP is one-time: a stored OTP leads to at most one successful
\* VerifyOTP, and no VerifyOTP succeeds on an OTP that is not stored or is
\* past its expiry.
OTPIsOneTime ==
    /\ ~rlog.otpOkTwice
    /\ ~rlog.otpOkStale

-----------------------------------------------------------------------------
(* Tokens: GenerateJWT, ValidateJWT, the middleware and /auth/refresh       *)

\* cfg.JWT.Secret, and a key that is not it
Secret == "secret"

Keys == {Secret, "other"}

\* the algorithms a token header can name; "??" is a header the library
\* cannot parse
HMACMethods == {"HS256", "HS384", "HS512"}

Algs == HMACMethods \cup {"RS256", "none", "??"}

\* time.Hour, in seconds
SecondsPerHour == 3600

\* Login: GenerateJWT(user, secret, 24) and GenerateJWT(user, secret, 168)
AccessHours == 24

RefreshHours == 168

\* time.Duration(expiryHours) * time.Hour, in ticks
Hours(h) == h * SecondsPerHour * TicksPerSecond

\* the last whole second at or before tick t
WholeSecond(t) == (t \div TicksPerSecond) * TicksPerSecond

\* jwt.NewNumericDate(t) keeps whole seconds: t.Truncate(jwt.TimePrecision)
NumericDateExact(t) == t

NumericDate(t) == (t \div TicksPerSecond) * TicksPerSecond

\* the role claim is is_student (part_007) or user_type (utils/jwt.go);
\* both have the two values student and admin
GenerateJWT(id, secret, expiryHours) ==
    [alg |-> "HS256", key |-> secret, user_id |-> id, is_student |-> users[id].is_student,
     exp |-> NumericDate(clock + Hours(expiryHours)), iat |-> NumericDate(clock)]

\* jwt.ParseWithClaims with the key function of ValidateJWT: the header is
\* parsed, the key function looks at the method, the signature is verified
\* with the key it returned, then the claims are validated (exp: now < exp)
ValidateJWT(t, secret) ==
    IF t.alg \notin Algs \ {"??"} THEN "token is malformed"
    ELSE IF t.alg \notin HMACMethods THEN "unexpected signing method"
    ELSE IF t.key # secret THEN "signature is invalid"
    ELSE IF ~(clock < t.exp) THEN "token is expired"
    ELSE "ok"

\* a student account and an admin account
StudentOf(r) == IF r = "v2" THEN 1 ELSE "sn1"

SessionUsers(r) == IF r = "v2" THEN {1, 2} ELSE {"sn1", "sn2"}

\* tokens a client can put together itself, signed with whatever it likes
Forged ==
    [alg : Algs \ {"HS384"}, key : Keys, user_id : {StudentOf(rev)}, is_student : BOOLEAN,
     exp : {NumericDate(clock + Hours(AccessHours))}, iat : {NumericDate(clock)}]

IssuedTokens == {e.tok : e \in issued}

AnyTokens == IssuedTokens \cup Forged

\* what a client without the secret can present
ClientTokens == IssuedTokens \cup {t \in Forged : t.key # Secret}

\* what a request carries: a token, or none (then the token is not looked at)
Carried(hasToken, tokens) == IF hasToken THEN tokens ELSE {CHOOSE t \in Forged : TRUE}

\* the entry of a token just generated: when, for how long, for what, and the
\* expiry of the refresh token of the Login it descends from
Entry(t, purpose, hours, rexp) ==
    [tok |-> t, purpose |-> purpose, at |-> clock, ttl |-> hours, rexp |-> rexp]

\* history of one ValidateJWT(t, Secret) call
Validated(log, t) ==
    LET r == ValidateJWT(t, Secret)
        mine == {e \in issued : e.tok = t}
    IN  [log EXCEPT
           !.acceptedUnpinned = @ \/ (r = "ok" /\ ~(t.alg = "HS256" /\ t.key = Secret)),
           !.okSeen = @ \/ (r = "ok" /\ mine # {}),
           !.expiredSeen = @ \/ (r = "token is expired" /\ mine # {}),
           !.earlyExpiry = @ \/ (r # "ok" /\ \E e \in mine : clock < e.at + Hours(e.ttl)),
           !.lateAccept = @ \/ (r = "ok" /\ \E e \in mine : clock > e.at + Hours(e.ttl)),
           !.expiryMismatch = @ \/ \E e \in mine :
                \/ (r = "ok") # (clock < WholeSecond(e.at + Hours(e.ttl)))
                \/ r \notin {"ok", "token is expired"}]

\* a served token request
SessAccept ==
    /\ nSess < MaxSessOps
    /\ nSess' = nSess + 1

\* the instants at which requests arrive after the start: a tick later, an
\* access lifetime later, just before and just after a refresh lifetime
Instants == <<1, Hours(AccessHours), Hours(RefreshHours) - 1, Hours(RefreshHours) + 1>>

\* the clock moves on to the next of them, or d ticks past the last
ClockStep(d) ==
    /\ nClock < MaxClockSteps
    /\ nClock' = nClock + 1
    /\ clock' = IF nClock < Len(Instants) THEN Instants[nClock + 1] ELSE clock + d
    /\ UNCHANGED <<rev, users, pointsOnly, authOnly, resetOnly, materialOnly, issued, nSess, slog>>

\* Login, once the credentials are accepted: unnamed/part_001:230-264
LoginIssueTokens(id) ==
    LET access == GenerateJWT(id, Secret, AccessHours)
        refresh == GenerateJWT(id, Secret, RefreshHours)
    IN  /\ SessAccept
        /\ Cardinality({e \in issued : e.purpose = "refresh"}) < MaxLogins
        /\ issued' = issued \cup {Entry(access, "access", AccessHours, refresh.exp),
                                  Entry(refresh, "refresh", RefreshHours, refresh.exp)}
        /\ UNCHANGED <<rev, users, pointsOnly, authOnly, resetOnly, materialOnly,
                       clock, nClock, slog>>

\* a middleware that keeps a list of the tokens logged out
AuthenticateRevoking(hasToken, t) ==
    IF ~hasToken THEN 401
    ELSE IF ValidateJWT(t, Secret) # "ok" \/ t \in slog.loggedOut THEN 401
    ELSE 0

\* AuthMiddleware.Authenticate: 0 stands for next.ServeHTTP
Authenticate(hasToken, t) ==
    IF ~hasToken THEN 401
    ELSE IF ValidateJWT(t, Secret) # "ok" THEN 401
    ELSE 0

RequireStudent(t) == IF ~t.is_student THEN 403 ELSE 0

RequireAdminSkipped(t) == 0

RequireAdmin(t) == IF t.is_student THEN 403 ELSE 0

\* unnamed/part_000: RequireRole(role); the context value is the claim
RequireRole(role, t) ==
    IF (IF t.is_student THEN "student" ELSE "admin") # role THEN 403 ELSE 0

Routes == {"me", "student", "admin"}

\* the middleware a route sits behind in router.New, in order; 0: the handler runs
RouteStatus(route, hasToken, t) ==
    LET a == Authenticate(hasToken, t) IN
    IF a # 0 THEN a
    ELSE IF route = "admin" THEN (IF rev = "v2" THEN RequireAdmin(t) ELSE RequireRole("admin", t))
    ELSE IF route = "student" /\ rev = "v2" THEN RequireStudent(t)
    ELSE 0

\* is the request entitled to the route: a token signed with the configured
\* secret, not expired, with the role the route is for
Entitled(route, hasToken, t) ==
    /\ hasToken
    /\ t.key = Secret /\ t.alg \in HMACMethods
    /\ clock < t.exp
    /\ route = "admin" => ~t.is_student
    /\ (route = "student" /\ rev = "v2") => t.is_student

Authentic(hasToken, t) == Entitled("me", hasToken, t)

\* history: a token handed out before a Logout is presented before its expiry
\* and is accepted, or not; what is where the token went
AfterLogout(log, what, t, accepted) ==
    LET mine == t \in slog.loggedOut /\ clock < t.exp
    IN  [log EXCEPT
           !.okAfterLogout = IF mine /\ accepted THEN @ \cup {what} ELSE @,
           !.refusedAfterLogout = @ \/ (mine /\ ~accepted)]

\* AuthHandler.Logout: both cookies are set to empty with MaxAge -1 in the
\* answer; nothing is read and nothing is stored
Logout ==
    /\ slog' = [slog EXCEPT !.loggedOut = @ \cup IssuedTokens]
    /\ UNCHANGED <<rev, users, pointsOnly, authOnly, resetOnly, materialOnly,
                   clock, nClock, issued, nSess>>

\* a request to a route behind the middleware
Request(route, hasToken, t) ==
    LET st == RouteStatus(route, hasToken, t)
        seen == IF hasToken THEN Validated(slog, t) ELSE slog
        log == IF hasToken /\ route = "me"
               THEN AfterLogout(seen, "authenticate", t, st = 0) ELSE seen
    IN  /\ SessAccept
        /\ slog' = [log EXCEPT
                      !.ran = IF st = 0 THEN @ \cup {route} ELSE @,
                      !.refused = IF st # 0 THEN @ \cup {st} ELSE @,
                      !.ranUnentitled = @ \/ (st = 0 /\ ~Entitled(route, hasToken, t)),
                      !.wrongStatus = @ \/ (~Authentic(hasToken, t) /\ st # 401)
                                        \/ (Authentic(hasToken, t)
                                            /\ ~Entitled(route, hasToken, t) /\ st # 403)]
        /\ UNCHANGED <<rev, users, pointsOnly, authOnly, resetOnly, materialOnly,
                       clock, nClock, issued>>

\* AuthHandler.RefreshToken: the refresh_token cookie is validated like any
\* token, the user is read, and an access token is generated
RefreshToken(hasCookie, t) ==
    LET ok == hasCookie /\ ValidateJWT(t, Secret) = "ok" /\ t.user_id \in DOMAIN users
        mine == {e \in issued : e.tok = t}
        log == IF hasCookie THEN Validated(slog, t) ELSE slog
    IN  /\ SessAccept
        /\ UNCHANGED <<rev, users, pointsOnly, authOnly, resetOnly, materialOnly, clock, nClock>>
        /\ \/ /\ ~ok                             \* 401
              /\ issued' = issued
              /\ slog' = IF hasCookie /\ t.user_id \in DOMAIN users
                         THEN AfterLogout(log, "refresh", t, FALSE) ELSE log
           \/ /\ ok                              \* GetByID or GenerateJWT fails: 401 or 500
              /\ issued' = issued
              /\ slog' = log
           \/ /\ ok                              \* 200 with the access token
              /\ issued' = issued \cup
                    {Entry(GenerateJWT(t.user_id, Secret, AccessHours), "access", AccessHours, e.rexp)
                       : e \in mine}
              /\ slog' = [AfterLogout(log, "refresh", t, TRUE) EXCEPT
                            !.refreshOk = TRUE,
                            !.refreshWithAccess = @ \/ \A e \in mine : e.purpose # "refresh",
                            !.slid = @ \/ \E e \in mine : clock > e.rexp]

SessionInit ==
    /\ rev \in Revs
    /\ users = [id \in SessionUsers(rev) |->
                  [UserRow("sn1", "a@x", 0, TRUE) EXCEPT !.is_student = (id = StudentOf(rev))]]
    /\ userBadges = EmptyBag
    /\ call = [p \in Workers |-> Idle]
    /\ nCalls = 0
    /\ hist = [u \in {} |-> NoHist]
    /\ AuthQuiet

SessionNext ==
    \/ \E d \in {Hours(AccessHours)} : ClockStep(d)
    \/ \E id \in DOMAIN users : LoginIssueTokens(id)
    \/ \E route \in Routes, h \in BOOLEAN : \E t \in Carried(h, AnyTokens) : Request(route, h, t)
    \/ \E h \in BOOLEAN : \E t \in Carried(h, ClientTokens) : RefreshToken(h, t)
    \/ Logout

SessionSpec == SessionInit /\ [][SessionNext]_vars

\* C11: ValidateJWT accepts a token only if it was signed with the configured
\* secret and with HS256, the algorithm GenerateJWT signs with.
JWTAlgorithmPinned == ~slog.acceptedUnpinned

\* C12 as stated: a token issued with a lifetime validates at every time
\* before issue time + lifetime and fails at every time after it.
TokenValidUntilIssuePlusTTL ==
    /\ ~slog.earlyExpiry
    /\ ~slog.lateAccept

\* C12: a token issued with a lifetime validates at every time before the
\* whole second that issue time + lifetime falls in, and fails with an expiry
\* error from that second on.
TokenExpiresOnTheWholeSecond == ~slog.expiryMismatch

\* a token issued off the second was accepted, and was refused as expired
\* within its last second
TokenSeenValidAndExpired ==
    /\ slog.okSeen
    /\ slog.expiredSeen
    /\ slog.earlyExpiry

\* C13: /auth/refresh accepts only refresh tokens, so no access token comes
\* out of it after the refresh token of the Login has expired.
RefreshDoesNotSlide ==
    /\ ~slog.refreshWithAccess
    /\ ~slog.slid

\* C14: a handler behind RequireAdmin or RequireStudent runs only for a valid,
\* unexpired token with that role; no or an invalid token is answered 401 and
\* a valid token with the wrong role 403.
RoleGateHolds ==
    /\ ~slog.ranUnentitled
    /\ ~slog.wrongStatus

\* an admin handler ran, and requests were refused with 401 and with 403
RoleGateExercised ==
    /\ "admin" \in slog.ran
    /\ slog.refused = {401, 403}

\* C18: a Register request for an e-mail (as stored, lower-cased) or a student
\* number that an account already holds is answered 409, also when it lost a
\* race against another Register.
DuplicateRegisterIs409 == ~alog.dupNot409

LoginDoesNotTellAccounts == ~alog.loginLeak

\* C19: a failing database statement surfaces as a 5xx answer.
DatabaseFailureIs5xx == ~alog.faultNot5xx

-----------------------------------------------------------------------------
(* Votes and bookmarks: MaterialModel and its two routes *)

MaterialIds == {1, 2}

VoteTypes == {"UPVOTE", "DOWNVOTE"}

\* what a client can put in vote_type
VoteInputs == VoteTypes \cup {"upvote", "maybe"}

\* strings.ToUpper on the vote types above
ToUpper(s) ==
    CASE s = "upvote" -> "UPVOTE"
      [] s = "maybe" -> "MAYBE"
      [] OTHER -> s

\* the vote type the handler passes on: the integer-keyed router upper-cases it
VoteTypeOf(r, s) == IF r = "v2" THEN ToUpper(s) ELSE s

\* id <= 0 is refused by the integer-keyed router only
InvalidID(r, id) == r = "v2" /\ id <= 0

RowsOf(rows, m, u) == {r \in rows : r.material_id = m /\ r.user_id = u}

\* the foreign keys of votes and bookmarks
References(m, u) == m \in materials /\ u \in DOMAIN users

\* an upsert that keeps the vote already stored
VoteKeepsFirst(rows, m, u, t, at) ==
    IF RowsOf(rows, m, u) # {} THEN rows ELSE rows \cup {[material_id |-> m, user_id |-> u, vote_type |-> t, created_at |-> at]}

\* INSERT ... ON CONFLICT (material_id, user_id) DO UPDATE SET vote_type, created_at
Vote(rows, m, u, t, at) ==
    (rows \ RowsOf(rows, m, u)) \cup {[material_id |-> m, user_id |-> u, vote_type |-> t, created_at |-> at]}

\* an insert that does not look at the row already stored
BookmarkInsertsAgain(rows, m, u, at) == rows \cup {[material_id |-> m, user_id |-> u, created_at |-> at]}

\* INSERT ... ON CONFLICT (material_id, user_id) DO NOTHING
Bookmark(rows, m, u, at) ==
    IF RowsOf(rows, m, u) # {} THEN rows ELSE rows \cup {[material_id |-> m, user_id |-> u, created_at |-> at]}

\* the vote_count subquery of GetByID
VoteCount(rows, m) ==
    Cardinality({r \in rows : r.material_id = m /\ r.vote_type = "UPVOTE"})
    - Cardinality({r \in rows : r.material_id = m /\ r.vote_type = "DOWNVOTE"})

\* history: upvoters minus downvoters of m, by the last vote each user got stored
LatestCount(latest, m) ==
    Cardinality({u \in DOMAIN users : latest[<<m, u>>] = "UPVOTE"})
    - Cardinality({u \in DOMAIN users : latest[<<m, u>>] = "DOWNVOTE"})

MatAccept ==
    /\ nMat < MaxMatOps
    /\ nMat' = nMat + 1

\* history: a request that names an id no row has was answered
MissingAnswered(log, what, missing, status) ==
    [log EXCEPT
       !.missingSeen = IF missing THEN @ \cup {what} ELSE @,
       !.missingNot404 = @ \/ (missing /\ status # 404)]

\* who fills the tables besides the handlers: no one
Untouched == <<rev, credentials, call, nCalls, hist, req, nReqs, now, nTicks, seqs, alog,
               rlog, sessionOnly>>

\* the status of POST /materials/{id}/vote once MaterialModel.Vote returned
VoteStatus(u, id, t, ok) ==
    IF InvalidID(rev, id) \/ t \notin VoteTypes THEN 400
    ELSE IF ~ok \/ ~References(id, u) THEN 500
    ELSE 200

\* POST /materials/{id}/vote up to the answer of MaterialModel.Vote; ok is
\* whether the store executes the statement
VoteHandler(p, u, id, s, ok) ==
    LET t == VoteTypeOf(rev, s)
        st == VoteStatus(u, id, t, ok)
        stored == st = 200
        log == MissingAnswered(mlog, "vote", id \in MaterialIds \ materials /\ st # 400 /\ ok, st)
    IN  /\ mreq[p] = 0
        /\ MatAccept
        /\ votes' = IF stored THEN Vote(votes, id, u, t, nMat') ELSE votes
        /\ mreq' = IF stored THEN [mreq EXCEPT ![p] = id] ELSE mreq
        /\ mlog' = IF stored
                   THEN [log EXCEPT
                           !.latest[<<id, u>>] = t,
                           !.revoted = @ \/ mlog.latest[<<id, u>>] \in VoteTypes \ {t}]
                   ELSE log
        /\ UNCHANGED <<Untouched, users, userBadges, emailVerifications, resetTokens,
                       bookmarks, materials, uploaderOf, reports, ureq>>

\* the rest of the vote handler: GetByID and the answer with its vote_count
VoteRespond(p) ==
    LET id == mreq[p]
    IN  /\ id # 0
        /\ mreq' = [mreq EXCEPT ![p] = 0]
        /\ mlog' = IF id \in materials
                   THEN [mlog EXCEPT
                           !.counted = TRUE,
                           !.countWrong = @ \/ VoteCount(votes, id) # LatestCount(mlog.latest, id)]
                   ELSE mlog
        /\ UNCHANGED <<Untouched, users, userBadges, emailVerifications, resetTokens,
                       votes, bookmarks, materials, uploaderOf, reports, ureq, nMat>>

\* the status of POST /materials/{id}/bookmark
BookmarkStatus(u, id, ok) ==
    IF InvalidID(rev, id) THEN 400
    ELSE IF ~ok \/ ~References(id, u) THEN 500
    ELSE 201

\* POST /materials/{id}/bookmark
BookmarkHandler(u, id, ok) ==
    LET st == BookmarkStatus(u, id, ok)
        again == ok /\ RowsOf(bookmarks, id, u) # {}
        log == MissingAnswered(mlog, "bookmark", id \in MaterialIds \ materials /\ ok, st)
    IN  /\ MatAccept
        /\ bookmarks' = IF st = 201 THEN Bookmark(bookmarks, id, u, nMat') ELSE bookmarks
        /\ mlog' = [log EXCEPT
                      !.rebookmarked = @ \/ again,
                      !.rebookmarkBad = @ \/ (again /\ (st # 201 \/ bookmarks' # bookmarks))]
        /\ UNCHANGED <<Untouched, users, userBadges, emailVerifications, resetTokens,
                       votes, materials, uploaderOf, reports, mreq, ureq>>

\* POST /materials/{id}/report of the student-number-keyed router:
\* MaterialModel.Report, an INSERT with the foreign keys of reports
Report(u, id, ok) ==
    LET stored == ok /\ References(id, u)
    IN  /\ rev = "v1"
        /\ MatAccept
        /\ reports' = IF stored
                      THEN reports \cup {[material_id |-> id, reporter_id |-> u, created_at |-> nMat']}
                      ELSE reports
        /\ UNCHANGED <<Untouched, users, userBadges, emailVerifications, resetTokens,
                       votes, bookmarks, materials, uploaderOf, mreq, ureq, mlog>>

\* the status of GET /materials/{id} and of PUT (admin) /materials/{id}: GetByID
\* finds no row; MaterialModel.Update changes no row and returns nil
MaterialStatus(what, id) ==
    IF id \in materials THEN 200
    ELSE IF what = "get" \/ rev = "v1" THEN 404
    ELSE 200

\* GET /materials/{id}, PUT /admin/materials/{id} (PUT /materials/{id} by the
\* uploader in the student-number-keyed router): no column kept here changes
ReadOrUpdateMaterial(what, id) ==
    /\ MatAccept
    /\ mlog' = MissingAnswered(mlog, what, id \notin materials, MaterialStatus(what, id))
    /\ UNCHANGED <<Untouched, users, userBadges, emailVerifications, resetTokens,
                   votes, bookmarks, materials, uploaderOf, reports, mreq, ureq>>

\* a delete that leaves the referencing rows alone
OnDeleteNoAction(rows, column, id) == rows

\* ON DELETE CASCADE of a foreign key column
OnDeleteCascade(rows, column, id) == {r \in rows : r[column] # id}

\* the status of DELETE /admin/materials/{id} (DELETE /materials/{id} by the
\* uploader in the student-number-keyed router, which reads the row first)
DeleteMaterialStatus(id) == IF rev = "v1" /\ id \notin materials THEN 404 ELSE 204

\* MaterialModel.Delete behind its route: the votes, bookmarks and reports of
\* the material go with it
DeleteMaterial(id) ==
    LET st == DeleteMaterialStatus(id)
    IN  /\ MatAccept
        /\ materials' = materials \ {id}
        /\ uploaderOf' = [m \in materials \ {id} |-> uploaderOf[m]]
        /\ votes' = OnDeleteCascade(votes, "material_id", id)
        /\ bookmarks' = OnDeleteCascade(bookmarks, "material_id", id)
        /\ reports' = OnDeleteCascade(reports, "material_id", id)
        /\ mlog' = [MissingAnswered(mlog, "delete material", id \notin materials, st) EXCEPT
                      !.materialDeleted = @ \/ id \in materials,
                      !.cascaded = @ \/ \E r \in votes \cup bookmarks : r.material_id = id]
        /\ UNCHANGED <<Untouched, users, userBadges, emailVerifications, resetTokens,
                       mreq, ureq>>

\* a delete that empties user_badges
CascadeAllBadges(bag, u) == EmptyBag

\* user_badges.user_id REFERENCES users(id) ON DELETE CASCADE
CascadeBadges(bag, u) == [k \in {x \in DOMAIN bag : x[1] # u} |-> bag[k]]

\* materials.uploader_id REFERENCES users(id), with no ON DELETE clause
Uploaded(u) == {m \in materials : uploaderOf[m] = u}

\* the status of DELETE /admin/users/{id}; the student-number-keyed router
\* reads the row first
DeleteUserStatus(u) ==
    IF rev = "v1" /\ ~HasUser(u) THEN 404
    ELSE IF Uploaded(u) # {} THEN 500
    ELSE 204

\* DELETE /admin/users/{id}: DELETE FROM users WHERE id = $1.  It waits for a
\* transaction that holds the row; the rows that reference the user with ON
\* DELETE CASCADE go with it, user_credentials is not among them
DeleteUser(u) ==
    LET st == DeleteUserStatus(u)
        gone == IF st = 204 THEN {u} ELSE {}
    IN  /\ MatAccept
        /\ \A q \in Workers : ~HoldsRowLock(q, u)
        /\ users' = [v \in DOMAIN users \ gone |-> users[v]]
        /\ userBadges' = IF st = 204 THEN CascadeBadges(userBadges, u) ELSE userBadges
        /\ votes' = IF st = 204 THEN OnDeleteCascade(votes, "user_id", u) ELSE votes
        /\ bookmarks' = IF st = 204 THEN OnDeleteCascade(bookmarks, "user_id", u) ELSE bookmarks
        /\ reports' = IF st = 204 THEN OnDeleteCascade(reports, "reporter_id", u) ELSE reports
        /\ emailVerifications' = IF st = 204
                                 THEN OnDeleteCascade(emailVerifications, "user_id", u)
                                 ELSE emailVerifications
        /\ resetTokens' = IF st = 204 THEN OnDeleteCascade(resetTokens, "user_id", u)
                          ELSE resetTokens
        /\ mlog' = [MissingAnswered(mlog, "delete user", ~HasUser(u), st) EXCEPT
                      !.deleteRefused = @ \/ (HasUser(u) /\ st # 204),
                      !.badgesDropped = @ \/ (st = 204 /\ HeldBadges(u) # {}),
                      !.userDeleted = @ \/ (HasUser(u) /\ st = 204)]
        /\ UNCHANGED <<Untouched, materials, uploaderOf, mreq, ureq>>

\* two accounts: the first has uploaded the two materials (two rewards, the
\* threshold-0 badge), the second nothing
MaterialInit ==
    /\ rev \in Revs
    /\ users = [id \in SessionUsers(rev) |->
                  IF id = StudentOf(rev) THEN UserRow("sn1", "a@x", 2 * UploadPoints, TRUE)
                  ELSE UserRow("sn2", "b@x", 0, TRUE)]
    /\ userBadges = SetToBag({<<StudentOf(rev), 1>>})
    /\ call = [p \in Workers |-> Idle]
    /\ nCalls = 0
    /\ hist = [u \in {} |-> NoHist]
    /\ credentials = [id \in SessionUsers(rev) |->
                        [email |-> IF id = StudentOf(rev) THEN "a@x" ELSE "b@x",
                         password_hash |-> HashPassword("pw1")]]
    /\ emailVerifications = {}
    /\ req = [p \in Workers |-> IdleReq]
    /\ nReqs = 0
    /\ now = 0
    /\ nTicks = 0
    /\ seqs = [uid |-> 2, tok |-> 0, row |-> 0, mat |-> 2]
    /\ alog = NoLog
    /\ resetTokens = {}
    /\ rlog = NoResetLog
    /\ SessionQuiet
    /\ votes = {}
    /\ bookmarks = {}
    /\ materials = MaterialIds
    /\ uploaderOf = [m \in MaterialIds |-> StudentOf(rev)]
    /\ reports = {}
    /\ mreq = [p \in Workers |-> 0]
    /\ ureq = <<>>
    /\ nMat = 0
    /\ mlog = [NoMaterialLog EXCEPT
                 !.latest = [k \in MaterialIds \X SessionUsers(rev) |-> "none"],
                 !.created = [u \in SessionUsers(rev) |-> IF u = StudentOf(rev) THEN 2 ELSE 0]]

MaterialNext ==
    \/ \E p \in Workers, u \in SessionUsers(rev), id \in MaterialIds \cup {0}, s \in VoteInputs,
          ok \in BOOLEAN :
          VoteHandler(p, u, id, s, ok)
    \/ \E p \in Workers : VoteRespond(p)
    \/ \E u \in SessionUsers(rev), id \in MaterialIds \cup {0}, ok \in BOOLEAN :
          BookmarkHandler(u, id, ok)
    \/ \E u \in SessionUsers(rev), id \in MaterialIds, ok \in BOOLEAN : Report(u, id, ok)
    \/ \E what \in {"get", "update"}, id \in MaterialIds : ReadOrUpdateMaterial(what, id)
    \/ \E id \in MaterialIds : DeleteMaterial(id)
    \/ \E u \in SessionUsers(rev) : DeleteUser(u)

MaterialSpec == MaterialInit /\ [][MaterialNext]_vars

-----------------------------------------------------------------------------
(* Uploads with their reward, the profile, and the rows that hang on both *)

\* the status of POST /materials before the reward; 0: the material is stored.
\* The integer-keyed router reads the user first and validates the body.
PostMaterialStatus(u, valid, ok) ==
    IF rev = "v2" /\ ~HasUser(u) THEN 404
    ELSE IF ~valid THEN 400
    ELSE IF ~ok \/ ~HasUser(u) THEN 500
    ELSE 0

\* POST /materials up to the entry of IncrementPointsAndCheckBadges(userID, 5):
\* MaterialModel.Create commits on its own
PostMaterial(p, u, valid, ok) ==
    LET st == PostMaterialStatus(u, valid, ok)
        id == seqs.mat + 1
    IN  /\ call[p].pc = "idle"
        /\ MatAccept
        /\ nCalls < MaxCalls
        /\ id \in MaterialIds
        /\ UNCHANGED <<rev, users, userBadges, credentials, emailVerifications, req, nReqs,
                       now, nTicks, alog, resetOnly, sessionOnly, votes, bookmarks, reports,
                       mreq, ureq>>
        /\ \/ /\ st # 0
              /\ UNCHANGED <<materials, uploaderOf, seqs, nCalls, mlog, call, hist>>
           \/ /\ st = 0
              /\ materials' = materials \cup {id}
              /\ uploaderOf' = [m \in materials \cup {id} |-> IF m = id THEN u ELSE uploaderOf[m]]
              /\ seqs' = [seqs EXCEPT !.mat = id]
              /\ nCalls' = nCalls + 1
              /\ mlog' = [mlog EXCEPT !.created[u] = @ + 1]
              /\ \/ /\ call' = [call EXCEPT ![p] =
                            [Idle EXCEPT !.pc = "begun", !.user = u, !.delta = UploadPoints,
                                         !.pre = users[u].points]]
                    /\ hist' = [hist EXCEPT ![u].raced = @ \/ InFlight(u) # {}]
                 \/ /\ rev = "v2"                     \* db.Begin() fails: 500
                    /\ call' = call
                    /\ hist' = [hist EXCEPT ![u].failed = TRUE]

\* what a client can put in first_name and last_name
Names == {"Ana", " Ana"}

\* strings.TrimSpace on the names above
TrimSpace(n) == IF n = " Ana" THEN "Ana" ELSE n

\* PUT /users/me at rest
IdleUpdate == [pc |-> "idle", user |-> StudentOf(rev), row |-> UserRow("", "", 0, FALSE)]

\* PUT /users/me up to UserModel.Update: the body is decoded, the user is read
\* with GetByID and the two names are set in the struct
UpdateMeRead(p, u, name, decodes) ==
    LET n == IF rev = "v2" THEN TrimSpace(name) ELSE name
    IN  /\ ureq[p].pc = "idle"
        /\ MatAccept
        /\ ureq' = IF decodes /\ HasUser(u)
                   THEN [ureq EXCEPT ![p] = [pc |-> "read", user |-> u, row |-> [users[u] EXCEPT
                                                                !.first_name = n,
                                                                !.last_name = n]]]
                   ELSE ureq                     \* 400, 404
        /\ UNCHANGED <<Untouched, users, userBadges, emailVerifications, resetTokens,
                       votes, bookmarks, materials, uploaderOf, reports, mreq, mlog>>

\* an UPDATE that writes every column of the struct
UpdateAllColumns(rows, id, user) ==
    IF id \in DOMAIN rows THEN [rows EXCEPT ![id] = user] ELSE rows

\* an UPDATE that takes the role from the request
UpdateWithRole(rows, id, user) ==
    IF id \in DOMAIN rows
    THEN [rows EXCEPT ![id].first_name = user.first_name, ![id].last_name = user.last_name,
                      ![id].is_student = FALSE]
    ELSE rows

\* UserModel.Update: UPDATE users SET first_name, last_name, updated_at WHERE id
Update(rows, id, user) ==
    IF id \in DOMAIN rows
    THEN [rows EXCEPT ![id].first_name = user.first_name, ![id].last_name = user.last_name]
    ELSE rows

\* the rest of PUT /users/me: UserModel.Update, which waits for a transaction
\* that holds the row, and the answer
UpdateMeWrite(p, ok) ==
    LET u == ureq[p].user
        after == Update(users, u, ureq[p].row)
        named == [v \in DOMAIN users |->
                    IF v = u THEN [users[v] EXCEPT !.first_name = ureq[p].row.first_name,
                                                   !.last_name = ureq[p].row.last_name]
                    ELSE users[v]]
    IN  /\ ureq[p].pc # "idle"
        /\ \A q \in Workers : ~HoldsRowLock(q, u)
        /\ ureq' = [ureq EXCEPT ![p] = IdleUpdate]
        /\ users' = IF ok THEN after ELSE users          \* 200, 500
        /\ mlog' = IF ok
                   THEN [mlog EXCEPT !.updated = @ \/ HasUser(u),
                                     !.updateLeak = @ \/ after # named]
                   ELSE mlog
        /\ UNCHANGED <<Untouched, userBadges, emailVerifications, resetTokens,
                       votes, bookmarks, materials, uploaderOf, reports, mreq, nMat>>

\* a student and an admin, registered and verified, nothing uploaded yet
UploadInit ==
    /\ rev \in Revs
    /\ users = [id \in SessionUsers(rev) |->
                  IF id = StudentOf(rev) THEN UserRow("sn1", "a@x", 0, TRUE)
                  ELSE [UserRow("sn2", "b@x", 0, TRUE) EXCEPT !.is_student = FALSE]]
    /\ userBadges = EmptyBag
    /\ call = [p \in Workers |-> Idle]
    /\ nCalls = 0
    /\ hist = [u \in SessionUsers(rev) |-> NoHist]
    /\ credentials = [id \in SessionUsers(rev) |->
                        [email |-> IF id = StudentOf(rev) THEN "a@x" ELSE "b@x",
                         password_hash |-> HashPassword("pw1")]]
    /\ emailVerifications = {}
    /\ req = [p \in Workers |-> IdleReq]
    /\ nReqs = 0
    /\ now = 0
    /\ nTicks = 0
    /\ seqs = [uid |-> 2, tok |-> 0, row |-> 0, mat |-> 0]
    /\ alog = NoLog
    /\ resetTokens = {}
    /\ rlog = NoResetLog
    /\ SessionQuiet
    /\ votes = {}
    /\ bookmarks = {}
    /\ materials = {}
    /\ uploaderOf = <<>>
    /\ reports = {}
    /\ mreq = [p \in Workers |-> 0]
    /\ ureq = [p \in Workers |-> IdleUpdate]
    /\ nMat = 0
    /\ mlog = [NoMaterialLog EXCEPT
                 !.latest = [k \in MaterialIds \X SessionUsers(rev) |-> "none"],
                 !.created = [u \in SessionUsers(rev) |-> 0]]

UploadNext ==
    \/ \E p \in Workers, valid \in BOOLEAN, ok \in BOOLEAN :
          PostMaterial(p, StudentOf(rev), valid, ok)
    \/ \E p \in Workers : Step(p)
    \/ \E p \in Workers, u \in SessionUsers(rev), n \in Names, d \in BOOLEAN :
          UpdateMeRead(p, u, n, d)
    \/ \E p \in Workers, ok \in BOOLEAN : UpdateMeWrite(p, ok)
    \/ \E p \in Workers, id \in MaterialIds, s \in VoteTypes :
          VoteHandler(p, StudentOf(rev), id, s, TRUE)
    \/ \E p \in Workers : VoteRespond(p)
    \/ \E id \in MaterialIds : BookmarkHandler(StudentOf(rev), id, TRUE)
    \/ \E id \in MaterialIds : Report(StudentOf(rev), id, TRUE)
    \/ \E id \in MaterialIds : DeleteMaterial(id)
    \/ \E u \in SessionUsers(rev) : DeleteUser(u)

UploadSpec == UploadInit /\ [][UploadNext]_vars

\* C16: a user has at most one vote row per material, the row carries the type
\* of the last vote the user got stored, and the vote count of a material is
\* the number of users whose last vote is UPVOTE minus the number of those
\* whose last vote is DOWNVOTE, in the table and in every answer.
VotesFollowLatestVote ==
    /\ \A m \in materials, u \in DOMAIN users :
          /\ Cardinality(RowsOf(votes, m, u)) <= 1
          /\ {r.vote_type : r \in RowsOf(votes, m, u)} = {mlog.latest[<<m, u>>]} \ {"none"}
    /\ \A m \in materials : VoteCount(votes, m) = LatestCount(mlog.latest, m)
    /\ ~mlog.countWrong

\* a user changed their vote on a material that now has an upvote and a
\* downvote, and a vote was answered with the count
RevoteCounted ==
    /\ mlog.revoted
    /\ mlog.counted
    /\ \E m \in materials : {r.vote_type : r \in {x \in votes : x.material_id = m}} = VoteTypes

\* C17: a bookmark request for a material the user has bookmarked already is
\* answered 201 like the first, changes no row, and there is one bookmark row
\* per user and material at most.
BookmarkIsIdempotent ==
    /\ \A m \in MaterialIds, u \in SessionUsers(rev) : Cardinality(RowsOf(bookmarks, m, u)) <= 1
    /\ ~mlog.rebookmarkBad

\* a material was bookmarked again by the user who holds its bookmark
BookmarkedTwice ==
    /\ mlog.rebookmarked
    /\ bookmarks # {}

\* C27: Logout stores nothing and revokes nothing: a token handed out before a
\* Logout and presented after it, before its own expiry, is accepted by
\* Authenticate and by RefreshToken.
LogoutRevokesNothing == ~slog.refusedAfterLogout

\* after a Logout, Authenticate let a token through and RefreshToken answered
\* one with a new access token
TokensUsedAfterLogout == slog.okAfterLogout = {"authenticate", "refresh"}

\* C28: ResetPassword changes a password only when the reset token it is given
\* was returned by a successful VerifyOTP for the same account.
ResetTokenComesFromVerifyOTP ==
    \A k \in rlog.pwChanged : <<k[1], k[2]>> \in rlog.returned

\* C21: a request that names a material or a user no row has (get material,
\* vote, bookmark, update material, delete material, delete user) is answered
\* 404.
MissingIdIs404 == ~mlog.missingNot404

\* the rows that reference user u by a foreign key
ReferencesTo(u) ==
    {<<"materials", m>> : m \in Uploaded(u)}
    \cup {<<"votes", r>> : r \in {x \in votes : x.user_id = u}}
    \cup {<<"bookmarks", r>> : r \in {x \in bookmarks : x.user_id = u}}
    \cup {<<"reports", r>> : r \in {x \in reports : x.reporter_id = u}}
    \cup {<<"user_badges", k>> : k \in {x \in DOMAIN userBadges : x[1] = u}}
    \cup {<<"email_verifications", r>> : r \in {x \in emailVerifications : x.user_id = u}}
    \cup {<<"reset_tokens", r>> : r \in {x \in resetTokens : x.user_id = u}}

\* C23: the delete of an existing user succeeds whatever rows reference the
\* user, and no row references a user that was deleted.
UserDeleteCascades ==
    /\ ~mlog.deleteRefused
    /\ \A u \in SessionUsers(rev) \ DOMAIN users : ReferencesTo(u) = {}

\* C24: every user_credentials row has its users row and every users row its
\* user_credentials row, under the same id.
OneAccountOneProfile == DOMAIN credentials = DOMAIN users

\* C29: once no reward is in flight, a user's points are 5 times the materials
\* the user has created, and no POST /materials that stored a material was
\* answered with an error.
PointsAreFiveTimesUploads ==
    \A u \in DOMAIN users :
        /\ ~hist[u].failed
        /\ InFlight(u) = {} => users[u].points = UploadPoints * mlog.created[u]

\* C22: every vote, bookmark and report row references a material that
\* exists, after creates, votes, bookmarks, reports and deletes; the delete of
\* a material takes its rows with it.
RowsReferToMaterials ==
    \A r \in votes \cup bookmarks \cup reports : r.material_id \in materials

\* a material that was created and then voted on or bookmarked was deleted
MaterialWithRowsDeleted ==
    /\ mlog.cascaded
    /\ mlog.materialDeleted
    /\ \E u \in DOMAIN users : mlog.created[u] > 0

\* C25 as stated: no step removes a row of user_badges.
BadgeLedgerAppendOnly ==
    [][\A u \in SessionUsers(rev), b \in Badges : BadgeRows(u, b)' >= BadgeRows(u, b)]_vars

\* C25: no step removes a badge award of a user who is still there after
\* the step; the awards of a deleted user go with the user.
BadgeLedgerAppendOnlyWhileUserExists ==
    [][\A u \in SessionUsers(rev), b \in Badges :
          u \in DOMAIN users' => BadgeRows(u, b)' >= BadgeRows(u, b)]_vars

\* a user was deleted and a user who is still there holds a badge
BadgeKeptAcrossUserDelete ==
    /\ mlog.userDeleted
    /\ \E u \in DOMAIN users : HeldBadges(u) # {}

\* C26: the points of a user are never negative and never decrease, and they
\* change only in a step of an increment call for that user.
PointsOnlyGrow ==
    [][\A u \in DOMAIN users \cap DOMAIN users' :
          /\ users[u].points >= 0
          /\ users'[u].points >= users[u].points
          /\ users'[u].points # users[u].points => InFlight(u) # {}]_vars

\* a user who has points was renamed by PUT /users/me
RenamedWithPoints ==
    \E u \in DOMAIN users : users[u].points > 0 /\ users[u].first_name # ""

====
